---- MODULE Spec2Model ----
(***************************************************************************)
(* Model of the report-generation service: the ReportService coordinator   *)
(* (start / submitFeedback / status), the AutonomousReportGenerator        *)
(* pipeline it runs (persona parsing, mock sections, report assembly), and  *)
(* the string functions these are built from.                              *)
(*                                                                         *)
(* A JavaScript string is modelled as a sequence of one-character strings. *)
(***************************************************************************)
EXTENDS Integers, Sequences, FiniteSets, TLC

----------------------------------------------------------------------------
(* Bounds of the model.                                                    *)

\* Number of runs startReportGeneration may create.
MaxRuns == 2

\* Number of pipeline executions (by start or submitFeedback) launched in all.
MaxExecs == 2

----------------------------------------------------------------------------
(* JavaScript string primitives.                                           *)

UpperCase == <<"A","B","C","D","E","F","G","H","I","J","K","L","M",
               "N","O","P","Q","R","S","T","U","V","W","X","Y","Z">>

LowerCase == <<"a","b","c","d","e","f","g","h","i","j","k","l","m",
               "n","o","p","q","r","s","t","u","v","w","x","y","z">>

Digits == <<"0","1","2","3","4","5","6","7","8","9">>

Range(s) == { s[i] : i \in DOMAIN s }

IsUpper(c) == c \in Range(UpperCase)

IsLower(c) == c \in Range(LowerCase)

IsDigit(c) == c \in Range(Digits)

\* \s of a JavaScript regular expression, and the characters trim() removes.
IsSpace(c) == c \in {" ", "\n", "\t", "\r"}

\* \w of a JavaScript regular expression.
IsWordChar(c) == IsUpper(c) \/ IsLower(c) \/ IsDigit(c) \/ c = "_"

LowerOf(c) ==
  IF IsUpper(c) THEN LowerCase[CHOOSE i \in DOMAIN UpperCase : UpperCase[i] = c]
  ELSE c

ToLowerCase(s) == [i \in DOMAIN s |-> LowerOf(s[i])]

\* s.substring(from) with a 1-based start.
DropFirst(s, n) == SubSeq(s, n + 1, Len(s))

\* Is p found in s at the 1-based position i ?
MatchesAt(s, p, i) ==
  /\ i >= 1
  /\ i + Len(p) - 1 <= Len(s)
  /\ SubSeq(s, i, i + Len(p) - 1) = p

StartsWith(s, p) == MatchesAt(s, p, 1)

\* 1-based position of the first occurrence of p in s at or after from; 0 if none.
IndexOfFrom(s, p, from) ==
  LET hits == { i \in from..(Len(s) - Len(p) + 1) : MatchesAt(s, p, i) }
  IN  IF hits = {} THEN 0 ELSE CHOOSE i \in hits : \A j \in hits : i <= j

IndexOf(s, p) == IndexOfFrom(s, p, 1)

Includes(s, p) == IndexOf(s, p) # 0

\* s.trim()
Trim(s) ==
  LET keep == { i \in DOMAIN s : ~IsSpace(s[i]) }
  IN  IF keep = {} THEN << >>
      ELSE LET lo == CHOOSE i \in keep : \A j \in keep : i <= j
               hi == CHOOSE i \in keep : \A j \in keep : i >= j
           IN  SubSeq(s, lo, hi)

\* s.split(sep) for a non-empty separator string.
RECURSIVE Split(_, _)
Split(s, sep) ==
  LET i == IndexOf(s, sep)
  IN  IF i = 0 THEN << s >>
      ELSE << SubSeq(s, 1, i - 1) >> \o Split(DropFirst(s, i + Len(sep) - 1), sep)

\* parts.join(sep)
RECURSIVE Join(_, _)
Join(parts, sep) ==
  IF Len(parts) = 0 THEN << >>
  ELSE IF Len(parts) = 1 THEN parts[1]
  ELSE parts[1] \o sep \o Join(Tail(parts), sep)

\* s.replace(p, r) with a string pattern: the first occurrence only.
ReplaceFirst(s, p, r) ==
  LET i == IndexOf(s, p)
  IN  IF i = 0 THEN s
      ELSE SubSeq(s, 1, i - 1) \o r \o DropFirst(s, i + Len(p) - 1)

\* s.replace(/p/g, r) for a literal pattern p: every occurrence, left to right.
RECURSIVE ReplaceAll(_, _, _)
ReplaceAll(s, p, r) ==
  LET i == IndexOf(s, p)
  IN  IF i = 0 THEN s
      ELSE SubSeq(s, 1, i - 1) \o r \o ReplaceAll(DropFirst(s, i + Len(p) - 1), p, r)

\* Length of the longest prefix of s whose characters all satisfy the test
\* (the greedy match of a starred character class at the start of s).
RECURSIVE SpanSpaces(_)
SpanSpaces(s) == IF Len(s) > 0 /\ IsSpace(s[1]) THEN 1 + SpanSpaces(Tail(s)) ELSE 0

RECURSIVE SpanDigits(_)
SpanDigits(s) == IF Len(s) > 0 /\ IsDigit(s[1]) THEN 1 + SpanDigits(Tail(s)) ELSE 0

RECURSIVE SpanLower(_)
SpanLower(s) == IF Len(s) > 0 /\ IsLower(s[1]) THEN 1 + SpanLower(Tail(s)) ELSE 0

----------------------------------------------------------------------------
(* Persona parser: AutonomousReportGenerator.parseAnalystsFromResponse.    *)

\* A Partial<Analyst> is a function from the keys that are set to their values;
\* {} is the function with the empty domain.
EmptyAnalyst == << >>

HasKey(obj, k) == k \in DOMAIN obj

\* obj[k] = v, adding the key when it is not there yet.
SetKey(obj, k, v) ==
  [x \in (DOMAIN obj) \cup {k} |-> IF x = k THEN v ELSE obj[x]]

\* The value of obj.k as a condition or the left side of ||.
Truthy(obj, k) == HasKey(obj, k) /\ obj[k] # << >>

\* cleanLine.split(':')[1]?.trim() of a line that holds a ':'.
AfterColon(cleanLine) == Trim(Split(cleanLine, <<":">>)[2])

\* trimmedLine.replace(/^\*\s*/, '').replace(/\*\*/g, '').trim()
CleanLine(line) ==
  LET trimmedLine == Trim(line)
      noBullet == IF StartsWith(trimmedLine, <<"*">>)
                  THEN DropFirst(trimmedLine, 1 + SpanSpaces(DropFirst(trimmedLine, 1)))
                  ELSE trimmedLine
  IN  Trim(ReplaceAll(noBullet, <<"*","*">>, << >>))

\* cleanLine.toLowerCase().match(/^analyst\s*\d*:/i)
MatchesAnalystMarker(cleanLine) ==
  LET lower == ToLowerCase(cleanLine)
      rest1 == DropFirst(lower, 7)
      rest2 == DropFirst(rest1, SpanSpaces(rest1))
      rest3 == DropFirst(rest2, SpanDigits(rest2))
  IN  /\ StartsWith(lower, <<"a","n","a","l","y","s","t">>)
      /\ StartsWith(rest3, <<":">>)

\* A completeAnalyst that gives the role its default only when the key is
\* missing (?? in place of ||).
MutCompleteAnalyst(analyst) ==
  [name |-> IF Truthy(analyst, "name") THEN analyst["name"] ELSE << "U" >>,
   role |-> IF HasKey(analyst, "role") THEN analyst["role"] ELSE << "R" >>,
   affiliation |-> IF Truthy(analyst, "affiliation") THEN analyst["affiliation"]
                   ELSE << "A" >>,
   description |-> IF Truthy(analyst, "description") THEN analyst["description"]
                   ELSE << "D" >>]

\* completeAnalyst: every missing or empty field gets its default.
CompleteAnalyst(analyst) ==
  [name |-> IF Truthy(analyst, "name") THEN analyst["name"]
            ELSE <<"U","n","k","n","o","w","n"," ","A","n","a","l","y","s",
                  "t">>,
   role |-> IF Truthy(analyst, "role") THEN analyst["role"]
            ELSE <<"R","e","s","e","a","r","c","h"," ","A","n","a","l","y",
                  "s","t">>,
   affiliation |-> IF Truthy(analyst, "affiliation") THEN analyst["affiliation"]
                   ELSE <<"A","I"," ","R","e","s","e","a","r","c","h"," ",
                         "I","n","s","t","i","t","u","t","e">>,
   description |-> IF Truthy(analyst, "description") THEN analyst["description"]
                   ELSE (IF Truthy(analyst, "name") THEN analyst["name"]
                         ELSE <<"T","h","i","s"," ","a","n","a","l","y","s",
                               "t">>)
                        \o <<" ","p","r","o","v","i","d","e","s"," ","e","x",
                              "p","e","r","t"," ","a","n","a","l","y","s",
                              "i","s"," ","o","n"," ","t","h","e"," ","t",
                              "o","p","i","c",".">>]

\* A test for the flush that asks for the name only.
MutHasNameAndAnotherKey(cur) == Truthy(cur, "name")

\* currentAnalyst.name && Object.keys(currentAnalyst).length > 1
HasNameAndAnotherKey(cur) == Truthy(cur, "name") /\ Cardinality(DOMAIN cur) > 1

\* One iteration of the loop over the lines: st is [analysts, currentAnalyst].
ParseLine(st, line) ==
  LET cleanLine == CleanLine(line)
      lower == ToLowerCase(cleanLine)
      cur == st.currentAnalyst
      flushed == IF HasNameAndAnotherKey(cur)
                 THEN Append(st.analysts, CompleteAnalyst(cur))
                 ELSE st.analysts
  IN  IF StartsWith(lower, <<"n","a","m","e",":">>)
      THEN [analysts |-> flushed,
            currentAnalyst |->
              SetKey(EmptyAnalyst, "name",
                     IF AfterColon(cleanLine) # << >> THEN AfterColon(cleanLine)
                     ELSE <<"U","n","k","n","o","w","n"," ","A","n","a","l",
                           "y","s","t">>)]
      ELSE IF StartsWith(lower, <<"r","o","l","e",":">>)
      THEN [st EXCEPT !.currentAnalyst = SetKey(cur, "role", AfterColon(cleanLine))]
      ELSE IF StartsWith(lower, <<"a","f","f","i","l","i","a","t","i","o",
            "n",":">>)
      THEN [st EXCEPT !.currentAnalyst =
                        SetKey(cur, "affiliation", AfterColon(cleanLine))]
      ELSE IF StartsWith(lower, <<"d","e","s","c","r","i","p","t","i","o",
            "n",":">>)
      THEN [st EXCEPT !.currentAnalyst =
                        SetKey(cur, "description", AfterColon(cleanLine))]
      ELSE IF MatchesAnalystMarker(cleanLine)
      THEN [analysts |-> flushed,
            currentAnalyst |->
              SetKey(EmptyAnalyst, "name",
                     IF AfterColon(cleanLine) # << >> THEN AfterColon(cleanLine)
                     ELSE cleanLine)]
      ELSE st

RECURSIVE ParseLines(_, _)
ParseLines(st, lines) ==
  IF Len(lines) = 0 THEN st
  ELSE ParseLines(ParseLine(st, Head(lines)), Tail(lines))

----------------------------------------------------------------------------
(* Fallback personas: AutonomousReportGenerator.createAnalystsFromContent. *)

\* Position of the last character of a word [A-Z][a-z]+ that starts at i and
\* takes its whole run of lower-case letters; 0 if no such word starts at i.
WordEnd(s, i) ==
  IF i >= 1 /\ i <= Len(s) /\ IsUpper(s[i]) /\ SpanLower(DropFirst(s, i)) >= 1
  THEN i + SpanLower(DropFirst(s, i))
  ELSE 0

\* End positions of the words of the longest run (?:\s+[A-Z][a-z]+)* after a
\* word that ends at e, that word included.
RECURSIVE ChainEnds(_, _)
ChainEnds(s, e) ==
  LET gap == SpanSpaces(DropFirst(s, e))
      next == WordEnd(s, e + gap + 1)
  IN  IF gap >= 1 /\ next # 0 THEN << e >> \o ChainEnds(s, next) ELSE << e >>

\* \b after position e, whose character is a word character.
BoundaryAfter(s, e) == e = Len(s) \/ ~IsWordChar(s[e + 1])

\* Where a match of /\b([A-Z][a-z]+(?:\s+[A-Z][a-z]+)+)\b/ that starts at i
\* ends (the engine gives the last word back when no \b follows it); 0 if
\* none starts at i.
NameMatchEnd(s, i) ==
  IF (i = 1 \/ ~IsWordChar(s[i - 1])) /\ WordEnd(s, i) # 0
  THEN LET ends == ChainEnds(s, WordEnd(s, i))
           n == IF BoundaryAfter(s, ends[Len(ends)]) THEN Len(ends)
                ELSE Len(ends) - 1
       IN  IF n >= 2 THEN ends[n] ELSE 0
  ELSE 0

\* content.match(nameRegex) || [] with the g flag, scanning from position i.
RECURSIVE NameMatches(_, _)
NameMatches(s, i) ==
  IF i > Len(s) THEN << >>
  ELSE IF NameMatchEnd(s, i) # 0
  THEN << SubSeq(s, i, NameMatchEnd(s, i)) >> \o NameMatches(s, NameMatchEnd(s, i) + 1)
  ELSE NameMatches(s, i + 1)

\* [...new Set(xs)]: first occurrences, in order.
RECURSIVE Unique(_)
Unique(xs) ==
  IF Len(xs) = 0 THEN << >>
  ELSE LET front == Unique(SubSeq(xs, 1, Len(xs) - 1))
           last == xs[Len(xs)]
       IN  IF last \in Range(front) THEN front ELSE Append(front, last)

Max(a, b) == IF a >= b THEN a ELSE b

Min(a, b) == IF a <= b THEN a ELSE b

\* The analyst of slot i (0-based) of createAnalystsFromContent.
ContentAnalyst(uniqueNames, i) ==
  LET name == IF i + 1 <= Len(uniqueNames) THEN uniqueNames[i + 1]
              ELSE <<"A","n","a","l","y","s","t"," ">> \o << Digits[i + 2] >>
  IN  [name |-> name,
       role |-> IF i = 0 THEN <<"S","e","n","i","o","r"," ","E","c","o","n",
             "o","m","i","s","t">>
                ELSE IF i = 1 THEN <<"D","a","t","a"," ","A","n","a","l","y",
                      "s","t">>
                ELSE <<"R","e","s","e","a","r","c","h"," ","A","n","a","l",
                      "y","s","t">>,
       affiliation |-> IF i = 0 THEN <<"R","e","s","e","r","v","e"," ","B",
             "a","n","k">>
                       ELSE IF i = 1 THEN <<"R","e","s","e","a","r","c","h",
                             " ","I","n","s","t","i","t","u","t","e">>
                       ELSE <<"A","I"," ","A","n","a","l","y","t","i","c",
                             "s">>,
       description |-> name \o <<" ","p","r","o","v","i","d","e","s"," ","e",
             "x","p","e","r","t"," ","a","n","a","l","y","s","i","s"," ","a",
             "n","d"," ","i","n","s","i","g","h","t","s"," ","o","n"," ","t",
             "h","e"," ","t","o","p","i","c",".">>]

\* A createAnalystsFromContent whose loop runs over the names found only.
MutCreateAnalystsFromContent(content) ==
  LET found == Unique(NameMatches(content, 1))
      uniqueNames == SubSeq(found, 1, Min(Len(found), 3))
  IN  [i \in 1..Len(uniqueNames) |-> ContentAnalyst(uniqueNames, i - 1)]

CreateAnalystsFromContent(content) ==
  LET found == Unique(NameMatches(content, 1))
      uniqueNames == SubSeq(found, 1, Min(Len(found), 3))
  IN  [i \in 1..Max(Len(uniqueNames), 3) |-> ContentAnalyst(uniqueNames, i - 1)]

ParseAnalystsFromResponse(content) ==
  LET lines == Split(content, <<"\n">>)
      st == ParseLines([analysts |-> << >>, currentAnalyst |-> EmptyAnalyst], lines)
      analysts == IF Truthy(st.currentAnalyst, "name")
                  THEN Append(st.analysts, CompleteAnalyst(st.currentAnalyst))
                  ELSE st.analysts
  IN  IF Len(analysts) = 0 THEN CreateAnalystsFromContent(content) ELSE analysts

----------------------------------------------------------------------------
(* Report assembly: AutonomousReportGenerator.finalizeReport, and the mock *)
(* sections of AutonomousReportGenerator.executeWorkflow.                  *)

\* A strip of '## Insights' that does not trim what is left.
MutStripInsights(content) ==
  IF StartsWith(content, <<"#","#"," ","I","n","s","i","g","h","t","s">>)
  THEN DropFirst(content, 11)
  ELSE content

\* The '## Insights' strip of finalizeReport.
StripInsights(content) ==
  IF StartsWith(content, <<"#","#"," ","I","n","s","i","g","h","t","s">>)
  THEN Trim(ReplaceFirst(content, <<"#","#"," ","I","n","s","i","g","h","t",
        "s">>, << >>))
  ELSE content

\* A split that takes the first two parts whenever there are two or more.
MutSplitSources(content) ==
  LET parts == Split(content, <<"\n","#","#"," ","S","o","u","r","c","e","s",
        "\n">>)
  IN  IF Len(parts) >= 2
      THEN [content |-> parts[1], found |-> TRUE, sources |-> parts[2]]
      ELSE [content |-> content, found |-> FALSE, sources |-> << >>]

\* The sources split of finalizeReport: [content, sources], sources being
\* null (here: found = FALSE) unless the split gives exactly two parts.
SplitSources(content) ==
  LET parts == Split(content, <<"\n","#","#"," ","S","o","u","r","c","e","s",
        "\n">>)
  IN  IF Includes(content, <<"#","#"," ","S","o","u","r","c","e",
        "s">>) /\ Len(parts) = 2
      THEN [content |-> parts[1], found |-> TRUE, sources |-> parts[2]]
      ELSE [content |-> content, found |-> FALSE, sources |-> << >>]

\* An assembly that puts the separator before the conclusion even when the
\* conclusion is empty.
MutFinalizeReport(content, introduction, conclusion) ==
  LET split == SplitSources(StripInsights(content))
      separator == <<"\n","\n","-","-","-","\n","\n">>
  IN  (IF introduction # << >> THEN introduction \o separator ELSE << >>)
      \o split.content
      \o separator \o conclusion
      \o (IF split.found /\ split.sources # << >>
          THEN <<"\n","\n","#","#"," ","S","o","u","r","c","e","s",
                "\n">> \o split.sources
          ELSE << >>)

FinalizeReport(content, introduction, conclusion) ==
  LET split == SplitSources(StripInsights(content))
      separator == <<"\n","\n","-","-","-","\n","\n">>
  IN  (IF introduction # << >> THEN introduction \o separator ELSE << >>)
      \o split.content
      \o (IF conclusion # << >> THEN separator \o conclusion ELSE << >>)
      \o (IF split.found /\ split.sources # << >>
          THEN <<"\n","\n","#","#"," ","S","o","u","r","c","e","s",
                "\n">> \o split.sources
          ELSE << >>)

\* The section executeWorkflow makes for one analyst.
MockSection(analyst) ==
  <<"#","#"," ","S","e","c","t","i","o","n",":"," ">> \o analyst.name
  \o <<"\n","A","n","a","l","y","s","i","s"," ","f","r","o","m",
        " ">> \o analyst.role \o <<" ","a","t"," ">> \o analyst.affiliation
  \o <<".","\n","\n">> \o analyst.description
  \o <<"\n","\n","M","o","c","k"," ","i","n","t","e","r","v","i","e","w"," ",
        "c","o","n","t","e","n","t"," ","w","o","u","l","d"," ","g","o"," ",
        "h","e","r","e",".">>

\* analysts.map(analyst => `## Section: ...`)
MockSections(analysts) == [i \in DOMAIN analysts |-> MockSection(analysts[i])]

\* A writeReport that pushes its placeholder whatever the array holds.
MutWriteReportSections(sections) ==
  Append(sections, <<"N","o"," ","s","e","c","t","i","o","n","s"," ","g","e",
        "n","e","r","a","t","e","d"," ","-"," ","p","l","e","a","s","e"," ",
        "v","e","r","i","f","y"," ","i","n","t","e","r","v","i","e","w"," ",
        "s","t","a","g","e",".">>)

\* writeReport pushes a placeholder into the array it is given when that
\* array is empty; the array is the one executeWorkflow returns as sections.
\* (The dash of the placeholder text is an em dash in the source.)
WriteReportSections(sections) ==
  IF Len(sections) = 0
  THEN Append(sections, <<"N","o"," ","s","e","c","t","i","o","n","s"," ",
        "g","e","n","e","r","a","t","e","d"," ","-"," ","p","l","e","a","s",
        "e"," ","v","e","r","i","f","y"," ","i","n","t","e","r","v","i","e",
        "w"," ","s","t","a","g","e",".">>)
  ELSE sections

\* The mock LLM of ReportService.initialize: its answer to a message list
\* whose last message has the given content.
MockInvoke(lastContent) ==
  <<"M","o","c","k"," ","L","L","M"," ","r","e","s","p","o","n","s","e"," ",
        "t","o",":"," ">>
  \o (IF lastContent # << >> THEN lastContent ELSE <<"N","o"," ","m","e","s",
        "s","a","g","e">>)

----------------------------------------------------------------------------
(* Inputs: what callers pass and what the language model answers.          *)

\* Topics passed to startReportGeneration.
Topics == { <<"A","I">> }

\* maxAnalysts passed to startReportGeneration (3 is the default, and what
\* the route passes).
MaxAnalystsChoices == { 3 }

\* Feedback texts passed to submitFeedback.
FeedbackTexts == { <<"m","o","r","e">> }

\* Answers of the language model to the persona prompt, by name: a list of
\* two analysts, and the answer the mock LLM of initialize gives.
PersonaIds == { "list", "mock" }

\* Answers of the language model to the report-body prompt, by name.
BodyIds == { "body" }

\* Answers of the language model to the introduction prompt, by name.
IntroIds == { "intro" }

\* Answers of the language model to the conclusion prompt, by name.
ConclIds == { "concl" }

\* response.content of createAnalysts' invoke.
PersonaText(p) ==
  CASE p = "list" -> <<"N","a","m","e",":"," ","A","l","\n","R","o","l","e",
        ":"," ","E","c","o","n","o","m","i","s","t","\n","N","a","m","e",":",
        " ","B","o">>
    [] p = "mock" -> MockInvoke(<<"G","e","n","e","r","a","t","e"," ","t",
          "h","e"," ","s","e","t"," ","o","f"," ","a","n","a","l","y","s",
          "t","s",".">>)

\* The analysts createAnalysts returns, for each persona answer.
AnalystsOf == [p \in PersonaIds |-> ParseAnalystsFromResponse(PersonaText(p))]

\* The sections executeWorkflow returns, for each persona answer: the mapped
\* analysts, in the array writeReport was given.
SectionsOf == [p \in PersonaIds |-> WriteReportSections(MockSections(AnalystsOf[p]))]

\* report.content of writeReport's invoke.
BodyText(b) ==
  CASE b = "body" -> <<"#","#"," ","I","n","s","i","g","h","t","s","\n","B",
        "o","d","y","\n","#","#"," ","S","o","u","r","c","e","s","\n","S",
        "r","c","1">>

\* intro.content of writeIntroduction's invoke.
IntroText(i) ==
  CASE i = "intro" -> <<"I","n","t","r","o">>

\* conclusion.content of writeConclusion's invoke.
ConclText(c) ==
  CASE c = "concl" -> <<"C","o","n","c","l">>

\* The final report executeWorkflow returns, for each combination of answers.
FinalReportOf ==
  [f \in [body : BodyIds, intro : IntroIds, concl : ConclIds] |->
     FinalizeReport(BodyText(f.body), IntroText(f.intro), ConclText(f.concl))]

\* The run-state table stores, for analysts, sections and final_report, the
\* answers they were computed from; these are the values themselves.
AnalystsValue(a) == AnalystsOf[a.persona]

SectionsValue(s) == SectionsOf[s.persona]

FinalReportValue(f) == FinalReportOf[f]

----------------------------------------------------------------------------
(* State of the service.                                                   *)

VARIABLES
  workflows,     \* ReportService.workflows: thread id -> workflow object
  reporter,      \* ReportService.reporter: "null" until an initialize() settles
  initializing,  \* the constructor's initialize() call has not settled yet
  execs,         \* thread id -> the executeWorkflow calls made for it, in order
  reply,         \* the response the last step returned to a caller, if any
  now,           \* the clock: which of the instants Date reads
  disk,          \* the file system: its directories and its files
  cwd,           \* process.cwd()
  call,          \* the pure function under study: its arguments and its result
  interview,     \* the run of the interview graph: its node and its state
  failing        \* the formats whose encoder fails at present

vars ==
  << workflows, reporter, initializing, execs, reply, now, disk, cwd, call,
     interview, failing >>

\* What the coordinator's own steps leave alone: the clock, the file system,
\* the working directory, the function under study, the interview graph and
\* the encoders.
outside == << now, disk, cwd, call, interview, failing >>

\* A path is a sequence of names; the project root is the directory two
\* levels above the workflow's __dirname.
ProjectRoot == << <<"p","r","o","j","e","c","t">> >>

\* A file system with no directory and no file.
EmptyDisk == [dirs |-> {}, files |-> << >>]

\* No function is under study.
NoCall == [fn |-> "none"]

\* uuidv4() of the i-th run.
Uuid(i) == << "uuid", i >>

\* A thread id startReportGeneration never hands out.
UnknownThreadId == Uuid(0)

\* `thread_${Date.now()}_${random}` of the k-th execution of a run.
GenThreadId(threadId, k) == << "thread", threadId[2], k >>

\* Thread ids a caller may pass: those handed out, and one that never is.
CallerThreadIds == (DOMAIN workflows) \cup { UnknownThreadId }

\* { ...a, ...b }
Spread(a, b) ==
  [k \in (DOMAIN a) \cup (DOMAIN b) |-> IF k \in DOMAIN b THEN b[k] ELSE a[k]]

\* map.set(key, value)
MapSet(map, key, value) ==
  [t \in (DOMAIN map) \cup {key} |-> IF t = key THEN value ELSE map[t]]

\* The pipeline stages, each waiting for one model invocation.
LlmStages == { "createAnalysts", "writeReport", "writeIntroduction", "writeConclusion" }

\* The executions launched so far, as pairs << thread id, position >>.
ExecIds == { << t, k >> : t \in DOMAIN execs, k \in 1..MaxExecs } \cap
           { e \in (DOMAIN execs) \X (1..MaxExecs) : e[2] <= Len(execs[e[1]]) }

Exec(e) == execs[e[1]][e[2]]

InFlight(e) == Exec(e).pc \in LlmStages \cup { "initialize" }

\* human_analyst_feedback: feedback || '' in AutonomousReportGenerator.executeWorkflow;
\* feedback is the optional third parameter, as [given, text].
HumanAnalystFeedback(feedback) ==
  IF feedback.given /\ feedback.text # << >> THEN feedback.text ELSE << >>

\* The arguments of this.reporter.executeWorkflow(topic, maxAnalysts) in
\* ReportService.executeWorkflow: no third argument is passed.
ReporterArguments(threadId, topic, maxAnalysts) ==
  [topic |-> topic, maxAnalysts |-> maxAnalysts,
   feedback |-> [given |-> FALSE, text |-> << >>]]

\* ReportService.executeWorkflow up to its first await: the record of the call.
Launch(threadId, topic, maxAnalysts, origin) ==
  LET args == ReporterArguments(threadId, topic, maxAnalysts)
  IN  [origin |-> origin,
       topic |-> args.topic,
       maxAnalysts |-> args.maxAnalysts,
       human_analyst_feedback |-> HumanAnalystFeedback(args.feedback),
       pc |-> IF reporter = "null" THEN "initialize" ELSE "createAnalysts",
       persona |-> "none", body |-> "none", intro |-> "none"]

\* The step returned nothing to a caller.
NoReply == [op |-> "none"]

\* No interview graph has been built.
NoInterview == [node |-> "none"]

Init ==
  /\ workflows = << >>
  /\ reporter = "null"
  /\ initializing = TRUE
  /\ execs = << >>
  /\ reply = NoReply
  /\ now = 1
  /\ disk = EmptyDisk
  /\ cwd = ProjectRoot
  /\ call = NoCall
  /\ interview = NoInterview
  /\ failing = {}

\* The constructor's initialize() settles: this.reporter is the generator
\* over the loaded model, or over the mock LLM.
ConstructorInitialize ==
  /\ initializing
  /\ initializing' = FALSE
  /\ reporter' = "ready"
  /\ reply' = NoReply
  /\ UNCHANGED << workflows, execs >>

\* Number of executions launched in all.
RECURSIVE CountExecs(_)
CountExecs(threads) ==
  IF threads = {} THEN 0
  ELSE LET t == CHOOSE x \in threads : TRUE
       IN  Len(execs[t]) + CountExecs(threads \ {t})

\* A startReportGeneration that awaits executeWorkflow before it answers:
\* the caller gets the thread id only once the pipeline has settled.
MutStartReportGeneration(topic, maxAnalysts) ==
  LET threadId == Uuid(Cardinality(DOMAIN workflows) + 1)
      exec == Launch(threadId, topic, maxAnalysts, "start")
  IN  /\ Cardinality(DOMAIN workflows) < MaxRuns
      /\ CountExecs(DOMAIN execs) < MaxExecs
      /\ workflows' = MapSet(workflows, threadId,
                             [thread_id |-> threadId, topic |-> topic,
                              max_analysts |-> maxAnalysts,
                              status |-> "error", start_time |-> "Date",
                              error |-> "Workflow execution failed",
                              end_time |-> "Date"])
      /\ execs' = MapSet(execs, threadId, << [exec EXCEPT !.pc = "failed"] >>)
      /\ reporter' = "ready"
      /\ reply' = [op |-> "startReportGeneration", success |-> TRUE,
                   thread_id |-> threadId]
      /\ UNCHANGED initializing

\* startReportGeneration(topic, maxAnalysts)
StartReportGeneration(topic, maxAnalysts) ==
  LET threadId == Uuid(Cardinality(DOMAIN workflows) + 1)
  IN  /\ Cardinality(DOMAIN workflows) < MaxRuns
      /\ CountExecs(DOMAIN execs) < MaxExecs
      /\ workflows' = MapSet(workflows, threadId,
                             [thread_id |-> threadId, topic |-> topic,
                              max_analysts |-> maxAnalysts,
                              status |-> "in_progress", start_time |-> "Date"])
      /\ execs' = MapSet(execs, threadId,
                         << Launch(threadId, topic, maxAnalysts, "start") >>)
      /\ reply' = [op |-> "startReportGeneration", success |-> TRUE,
                   thread_id |-> threadId]
      /\ UNCHANGED << reporter, initializing >>

\* Topics a client posts to /generate_report: the topics of Topics, no topic
\* at all (''), and topics of white space only.
RequestTopics == Topics \cup { << >>, << " ", "\n" >> }

\* A route that tests the topic without trimming it.
MutTopicMissing(topic) == topic = << >>

\* !topic || topic.trim() === '' of the /generate_report route.
TopicMissing(topic) == topic = << >> \/ Trim(topic) = << >>

\* POST /generate_report with a missing topic: the route answers 400 and
\* does not call the service.
GenerateReportRejected(topic) ==
  /\ TopicMissing(topic)
  /\ reply' = [op |-> "generate_report", success |-> FALSE, http |-> 400]
  /\ UNCHANGED << workflows, reporter, initializing, execs >>

\* POST /generate_report with a topic: the route calls
\* reportService.startReportGeneration(topic, 3).
GenerateReport(topic) ==
  /\ ~TopicMissing(topic)
  /\ \E maxAnalysts \in MaxAnalystsChoices :
       StartReportGeneration(topic, maxAnalysts)

\* The response for a thread id the table does not hold.
NotFound(op, threadId) ==
  [op |-> op, success |-> FALSE, thread_id |-> threadId, error |-> "not found"]

\* A submitFeedback without the early return: it stores the feedback under
\* the unknown thread id before it answers.
MutSubmitFeedbackNotFound(threadId, feedback) ==
  /\ threadId \notin DOMAIN workflows
  /\ reply' = NotFound("submitFeedback", threadId)
  /\ workflows' = MapSet(workflows, threadId,
                         [status |-> "unknown", feedback |-> feedback])
  /\ execs' = MapSet(execs, threadId, << >>)
  /\ UNCHANGED << reporter, initializing >>

\* submitFeedback(threadId, feedback) for a thread id the table does not hold.
SubmitFeedbackNotFound(threadId, feedback) ==
  /\ threadId \notin DOMAIN workflows
  /\ reply' = NotFound("submitFeedback", threadId)
  /\ UNCHANGED << workflows, reporter, initializing, execs >>

\* The workflow object submitFeedback stores before it restarts the pipeline.
FeedbackState(workflow, feedback) == SetKey(workflow, "feedback", feedback)

\* A submitFeedback that starts the pipeline without awaiting it and answers
\* at once.
MutSubmitFeedback(threadId, feedback) ==
  /\ threadId \in DOMAIN workflows
  /\ CountExecs(DOMAIN execs) < MaxExecs
  /\ LET workflow == workflows[threadId]
     IN  /\ workflows' = MapSet(workflows, threadId, FeedbackState(workflow, feedback))
         /\ execs' = MapSet(execs, threadId,
                            Append(execs[threadId],
                                   Launch(threadId, workflow.topic,
                                          workflow.max_analysts, "feedback")))
  /\ reply' = [op |-> "submitFeedback", success |-> TRUE, thread_id |-> threadId]
  /\ UNCHANGED << reporter, initializing >>

\* submitFeedback(threadId, feedback) up to its await of executeWorkflow.
SubmitFeedback(threadId, feedback) ==
  /\ threadId \in DOMAIN workflows
  /\ CountExecs(DOMAIN execs) < MaxExecs
  /\ LET workflow == workflows[threadId]
     IN  /\ workflows' = MapSet(workflows, threadId, FeedbackState(workflow, feedback))
         /\ execs' = MapSet(execs, threadId,
                            Append(execs[threadId],
                                   Launch(threadId, workflow.topic,
                                          workflow.max_analysts, "feedback")))
  /\ reply' = NoReply
  /\ UNCHANGED << reporter, initializing >>

\* What the caller of the execution gets when it settles: submitFeedback
\* returns success; startReportGeneration returned long before.
SettledReply(e) ==
  IF Exec(e).origin = "feedback"
  THEN [op |-> "submitFeedback", success |-> TRUE, thread_id |-> e[1]]
  ELSE NoReply

\* execs with the record of execution e replaced.
WithExec(e, record) == [execs EXCEPT ![e[1]][e[2]] = record]

\* await this.initialize() inside executeWorkflow settles.
ExecInitialize(e) ==
  /\ Exec(e).pc = "initialize"
  /\ reporter' = "ready"
  /\ execs' = WithExec(e, [Exec(e) EXCEPT !.pc = "createAnalysts"])
  /\ reply' = NoReply
  /\ UNCHANGED << workflows, initializing >>

\* A createAnalysts whose caller stores the analysts in the table as soon as
\* they are there.
MutCreateAnalysts(e) ==
  /\ Exec(e).pc = "createAnalysts"
  /\ \E p \in PersonaIds :
       /\ execs' = WithExec(e, [Exec(e) EXCEPT !.pc = "writeReport", !.persona = p])
       /\ workflows' = MapSet(workflows, e[1],
                              Spread(workflows[e[1]],
                                     [analysts |-> [persona |-> p]]))
  /\ reply' = NoReply
  /\ UNCHANGED << reporter, initializing >>

\* createAnalysts: the persona prompt is answered and parsed.
CreateAnalysts(e) ==
  /\ Exec(e).pc = "createAnalysts"
  /\ \E p \in PersonaIds :
       execs' = WithExec(e, [Exec(e) EXCEPT !.pc = "writeReport", !.persona = p])
  /\ reply' = NoReply
  /\ UNCHANGED << workflows, reporter, initializing >>

\* writeReport: the report-body prompt is answered.
WriteReport(e) ==
  /\ Exec(e).pc = "writeReport"
  /\ \E b \in BodyIds :
       execs' = WithExec(e, [Exec(e) EXCEPT !.pc = "writeIntroduction", !.body = b])
  /\ reply' = NoReply
  /\ UNCHANGED << workflows, reporter, initializing >>

\* writeIntroduction: the introduction prompt is answered.
WriteIntroduction(e) ==
  /\ Exec(e).pc = "writeIntroduction"
  /\ \E i \in IntroIds :
       execs' = WithExec(e, [Exec(e) EXCEPT !.pc = "writeConclusion", !.intro = i])
  /\ reply' = NoReply
  /\ UNCHANGED << workflows, reporter, initializing >>

\* What AutonomousReportGenerator.executeWorkflow returns.
PipelineResult(e, c) ==
  [thread_id |-> GenThreadId(e[1], e[2]),
   analysts |-> [persona |-> Exec(e).persona],
   sections |-> [persona |-> Exec(e).persona],
   final_report |-> [body |-> Exec(e).body, intro |-> Exec(e).intro, concl |-> c]]

\* A success path that forgets to set the status.
MutCompletedState(workflow, result) ==
  Spread(Spread(workflow, result), [end_time |-> "Date"])

\* The workflow object ReportService.executeWorkflow stores on success.
CompletedState(workflow, result) ==
  Spread(Spread(workflow, result), [status |-> "completed", end_time |-> "Date"])

\* A catch that records the message but leaves the status as it was.
MutErrorState(workflow, message) ==
  Spread(workflow, [error |-> message, end_time |-> "Date"])

\* The workflow object ReportService.executeWorkflow stores in its catch.
ErrorState(workflow, message) ==
  Spread(workflow, [status |-> "error", error |-> message, end_time |-> "Date"])

\* The record of an execution that has settled.
Settled(exec, pc) ==
  [exec EXCEPT !.pc = pc, !.persona = "none", !.body = "none", !.intro = "none"]

\* writeConclusion is answered, finalizeReport runs, the pipeline returns and
\* ReportService.executeWorkflow stores the result.
WriteConclusion(e) ==
  /\ Exec(e).pc = "writeConclusion"
  /\ \E c \in ConclIds :
       workflows' = MapSet(workflows, e[1],
                           CompletedState(workflows[e[1]], PipelineResult(e, c)))
  /\ execs' = WithExec(e, Settled(Exec(e), "done"))
  /\ reply' = SettledReply(e)
  /\ UNCHANGED << reporter, initializing >>

\* A model invocation of the pipeline fails: the stage wraps the error,
\* executeWorkflow wraps it again as 'Workflow execution failed', and
\* ReportService.executeWorkflow stores the error state.
StageFails(e) ==
  /\ Exec(e).pc \in LlmStages
  /\ workflows' = MapSet(workflows, e[1],
                         ErrorState(workflows[e[1]], "Workflow execution failed"))
  /\ execs' = WithExec(e, Settled(Exec(e), "failed"))
  /\ reply' = SettledReply(e)
  /\ UNCHANGED << reporter, initializing >>

\* What one saveReport call of a status poll may give, left abstract: the
\* call fails, or it returns the path of the file it wrote.
ExportOutcomes(format) == { [ok |-> FALSE], [ok |-> TRUE, path |-> format] }

\* getReportStatus(threadId): docx and pdf are the outcomes of the two
\* saveReport calls, made only for a completed run with a report.
StatusResponse(threadId, docx, pdf) ==
  IF threadId \notin DOMAIN workflows
  THEN NotFound("getReportStatus", threadId)
  ELSE LET workflow == workflows[threadId]
       IN  IF /\ workflow.status = "completed"
              /\ HasKey(workflow, "final_report")
              /\ FinalReportValue(workflow.final_report) # << >>
           THEN IF ~docx.ok \/ ~pdf.ok
                THEN [op |-> "getReportStatus", success |-> FALSE,
                      thread_id |-> threadId,
                      error |-> "Failed to save report file"]
                ELSE [op |-> "getReportStatus", success |-> TRUE,
                      thread_id |-> threadId, status |-> "completed",
                      docx_path |-> docx.path, pdf_path |-> pdf.path,
                      final_report |-> workflow.final_report]
           ELSE Spread([op |-> "getReportStatus", success |-> TRUE,
                        thread_id |-> threadId, status |-> workflow.status],
                       IF HasKey(workflow, "error")
                       THEN [error |-> workflow.error] ELSE << >>)

\* getReportStatus(threadId), the file system left out.
GetReportStatus(threadId) ==
  /\ \E docx \in ExportOutcomes("docx"), pdf \in ExportOutcomes("pdf") :
       reply' = StatusResponse(threadId, docx, pdf)
  /\ UNCHANGED << workflows, reporter, initializing, execs >>

Next ==
  \/ ConstructorInitialize /\ UNCHANGED outside
  \/ \E topic \in RequestTopics :
       GenerateReportRejected(topic) /\ UNCHANGED outside
  \/ \E topic \in RequestTopics :
       GenerateReport(topic) /\ UNCHANGED outside
  \/ \E threadId \in CallerThreadIds, feedback \in FeedbackTexts :
       SubmitFeedbackNotFound(threadId, feedback) /\ UNCHANGED outside
  \/ \E threadId \in CallerThreadIds, feedback \in FeedbackTexts :
       SubmitFeedback(threadId, feedback) /\ UNCHANGED outside
  \/ \E threadId \in CallerThreadIds : GetReportStatus(threadId) /\ UNCHANGED outside
  \/ \E e \in ExecIds : ExecInitialize(e) /\ UNCHANGED outside
  \/ \E e \in ExecIds : CreateAnalysts(e) /\ UNCHANGED outside
  \/ \E e \in ExecIds : WriteReport(e) /\ UNCHANGED outside
  \/ \E e \in ExecIds : WriteIntroduction(e) /\ UNCHANGED outside
  \/ \E e \in ExecIds : WriteConclusion(e) /\ UNCHANGED outside
  \/ \E e \in ExecIds : StageFails(e) /\ UNCHANGED outside

Spec == Init /\ [][Next]_vars

\* One step of execution e: an awaited external call returns or fails.
ExecStep(e) ==
  \/ ExecInitialize(e)
  \/ CreateAnalysts(e)
  \/ WriteReport(e)
  \/ WriteIntroduction(e)
  \/ WriteConclusion(e)
  \/ StageFails(e)

\* Every external call an execution waits for eventually returns or fails.
Fairness ==
  \A i \in 1..MaxRuns, k \in 1..MaxExecs :
    WF_vars(/\ << Uuid(i), k >> \in ExecIds
            /\ ExecStep(<< Uuid(i), k >>)
            /\ UNCHANGED outside)

FairSpec == Spec /\ Fairness

----------------------------------------------------------------------------
(* Properties.                                                             *)

TerminalStatuses == { "completed", "error" }

\* The step accepts a submitFeedback for run t: one more execution of t.
FeedbackAccepted(t) == Len(execs'[t]) = Len(execs[t]) + 1

\* The executions of run t that have not settled.
InFlightOf(t) == { e \in ExecIds : e[1] = t /\ InFlight(e) }

\* What a status poll of run t returns when both exports succeed.
Poll(t) ==
  StatusResponse(t, [ok |-> TRUE, path |-> "docx"], [ok |-> TRUE, path |-> "pdf"])

\* The workflow object holds a pipeline result.
HasResults(workflow) ==
  HasKey(workflow, "analysts") \/ HasKey(workflow, "sections")
    \/ HasKey(workflow, "final_report")

\* C1: a run's status changes only from in_progress to completed or error,
\* or from completed or error to in_progress in a step that accepts a
\* feedback resubmission; no other change of status ever occurs.
C1_StatusTransitions ==
  [][\A t \in DOMAIN workflows :
       LET old == workflows[t].status
           new == workflows'[t].status
       IN  \/ new = old
           \/ old = "in_progress" /\ new \in TerminalStatuses
           \/ old \in TerminalStatuses /\ new = "in_progress" /\ FeedbackAccepted(t)
    ]_vars

\* C2: a step that accepts submitFeedback for a run whose status is completed
\* leaves the run in a state that a status poll reports as in_progress.
C2_FeedbackResetsStatus ==
  [][\A t \in DOMAIN workflows :
       (FeedbackAccepted(t) /\ workflows[t].status = "completed")
         => Poll(t)'.status = "in_progress"
    ]_vars

C4_SectionsMatchAnalysts ==
  \A t \in DOMAIN workflows :
    (HasKey(workflows[t], "analysts") /\ HasKey(workflows[t], "sections"))
      => Len(SectionsValue(workflows[t].sections))
           = Len(AnalystsValue(workflows[t].analysts))

\* C4 witness: a run holds the three analysts and sections of its feedback
\* re-execution while its first execution is still in flight.
C4_Witness ==
  \E t \in DOMAIN workflows :
    /\ HasKey(workflows[t], "analysts") /\ HasKey(workflows[t], "sections")
    /\ workflows[t].thread_id = GenThreadId(t, 2)
    /\ Len(AnalystsValue(workflows[t].analysts)) = 3
    /\ Len(SectionsValue(workflows[t].sections)) = 3
    /\ InFlight(<< t, 1 >>)

\* C5: the persona-generation step of an execution launched by submitFeedback
\* receives the feedback text recorded for the run as its human feedback.
C5_FeedbackReachesPersonas ==
  \A e \in ExecIds :
    (Exec(e).origin = "feedback" /\ Exec(e).pc # "initialize")
      => Exec(e).human_analyst_feedback = workflows[e[1]].feedback

\* C6: once a feedback has been accepted for a run, the run state holds no
\* analysts, sections or final report of an execution launched before the
\* most recent feedback.
C6_FeedbackDiscardsResults ==
  \A t \in DOMAIN workflows :
    \A k \in 2..Len(execs[t]) :
      HasResults(workflows[t])
        => \E j \in k..Len(execs[t]) : workflows[t].thread_id = GenThreadId(t, j)

\* C7: at most one execution of a run is in flight at any time.
C7_OneExecutionInFlight ==
  \A t \in DOMAIN workflows : Cardinality(InFlightOf(t)) <= 1

\* C8: a status poll or a submitFeedback for a thread id that is not in the
\* table answers not-found, and the step changes neither the table nor the
\* executions.
C8_UnknownRunNotFound ==
  [][(reply'.op \in { "getReportStatus", "submitFeedback" }
        /\ reply'.thread_id \notin DOMAIN workflows)
       => /\ reply'.success = FALSE
          /\ reply'.error = "not found"
          /\ workflows' = workflows
          /\ execs' = execs
    ]_vars

\* C8 witness: submitFeedback has just answered not-found while a run is in
\* progress.
C8_Witness ==
  /\ reply.op = "submitFeedback"
  /\ reply.success = FALSE
  /\ reply.thread_id \notin DOMAIN workflows
  /\ \E t \in DOMAIN workflows : InFlightOf(t) # {}

\* C9: a step in which an execution of run t fails leaves t with status
\* error and a recorded error, changes no other run's state, and answers the
\* waiting caller, if there is one, with success rather than a failure.
C9_FailureIsContained ==
  [][\A e \in ExecIds :
       (InFlight(e) /\ Exec(e)'.pc = "failed")
         => /\ workflows'[e[1]].status = "error"
            /\ HasKey(workflows'[e[1]], "error")
            /\ workflows'[e[1]].error = "Workflow execution failed"
            /\ \A u \in DOMAIN workflows : u # e[1] => workflows'[u] = workflows[u]
            /\ DOMAIN workflows' = DOMAIN workflows
            /\ reply'.op # "none" => reply'.success
    ]_vars

\* C9 witness: one run has failed while another is still in progress.
C9_Witness ==
  \E t, u \in DOMAIN workflows :
    /\ t # u
    /\ execs[t][1].pc = "failed"
    /\ workflows[t].status = "error"
    /\ workflows[u].status = "in_progress"
    /\ InFlightOf(u) # {}

\* C10: with every awaited external call eventually returning or failing,
\* every launched execution settles and leaves its run completed or error,
\* so no run stays in_progress forever.
C10_EveryRunSettles ==
  \A i \in 1..MaxRuns :
    /\ (Uuid(i) \in DOMAIN workflows)
         ~> (Uuid(i) \in DOMAIN workflows
             /\ workflows[Uuid(i)].status \in TerminalStatuses)
    /\ \A k \in 1..MaxExecs :
         (<< Uuid(i), k >> \in ExecIds)
           ~> (<< Uuid(i), k >> \in ExecIds
               /\ ~InFlight(<< Uuid(i), k >>)
               /\ workflows[Uuid(i)].status \in TerminalStatuses)

\* C10 witness: a feedback re-execution has settled and its run is completed.
C10_Witness ==
  \E t \in DOMAIN workflows :
    /\ Len(execs[t]) = 2
    /\ execs[t][2].pc = "done"
    /\ execs[t][1].pc = "failed"
    /\ workflows[t].status = "completed"

\* C13: no run in the table and no execution ever has a topic that is empty
\* or white space only, and a step in which /generate_report answers 400
\* changes neither the table nor the executions.
C13_EmptyTopicRejected ==
  [][/\ \A t \in DOMAIN workflows' :
          /\ Trim(workflows'[t].topic) # << >>
          /\ \A k \in 1..Len(execs'[t]) : Trim(execs'[t][k].topic) # << >>
     /\ (reply'.op = "generate_report" /\ ~reply'.success)
          => /\ workflows' = workflows
             /\ execs' = execs
    ]_vars

\* C13 witness: /generate_report has just answered 400 while a run is in
\* the table.
C13_Witness ==
  /\ reply.op = "generate_report"
  /\ ~reply.success
  /\ reply.http = 400
  /\ DOMAIN workflows # {}

----------------------------------------------------------------------------
(* Export and download: saveReport, downloadFile, findFile and the         *)
(* /download route, over a file system and a clock.                        *)

\* Number of instants the clock can show.
MaxClock == 2

\* new Date().toISOString() at instant i: consecutive milliseconds.
ToISOString(i) == <<"2","0","2","6","-","0","1","-","0","1","T","0","0",":",
      "0","0",":","0","0",".","0","0">> \o << Digits[i + 1] >> \o <<"Z">>

\* s.replace(/[chars]/g, r) for a class of characters.
ReplaceChars(s, chars, r) == [i \in DOMAIN s |-> IF s[i] \in chars THEN r ELSE s[i]]

\* The timestamp of saveReport.
Timestamp(iso) ==
  Split(ReplaceFirst(ReplaceChars(iso, {":",
        "."}, "_"), <<"T">>, <<"_">>), <<".">>)[1]

\* baseName of saveReport at instant i.
BaseName(topic, i) ==
  LET safeTopic == ReplaceChars(topic, {"\\", "/", "*", "?", ":", "\"", "<", ">", "|"}, "_")
  IN  ReplaceChars(safeTopic, {" "}, "_") \o <<"_">> \o Timestamp(ToISOString(i))

\* path.join(root, 'generated_report')
GeneratedReport(root) == root \o << <<"g","e","n","e","r","a","t","e","d",
      "_","r","e","p","o","r","t">> >>

\* The bytes an encoder writes for a report.
Encoded(finalReport, format) == [format |-> format, text |-> finalReport]

\* The formats of saveReport.
Formats == { "docx", "pdf" }

\* fs.mkdirSync(dir, { recursive: true }): dir and the directories above it.
MkdirRecursive(d, dir) ==
  [d EXCEPT !.dirs = @ \cup { SubSeq(dir, 1, n) : n \in 1..Len(dir) }]

\* saveReport(finalReport, topic, format) called at instant i on the file
\* system d; written tells whether the encoder writes its file or fails.
\* The result carries the file system the call leaves.
SaveReport(d, finalReport, topic, format, i, written) ==
  LET baseName == BaseName(topic, i)
      reportFolder == GeneratedReport(ProjectRoot) \o << baseName >>
      filePath == reportFolder \o << baseName \o <<".">> \o format >>
      made == MkdirRecursive(d, reportFolder)
  IN  IF written
      THEN [ok |-> TRUE, path |-> filePath,
            disk |-> [made EXCEPT !.files =
                        MapSet(@, filePath, Encoded(finalReport, format))]]
      ELSE [ok |-> FALSE, disk |-> made]

\* getReportStatus(threadId) with its two saveReport calls; the clock may
\* advance while the first is awaited.  An encoder that fails makes its
\* saveReport call throw.
GetReportStatusSaving(threadId) ==
  /\ threadId \in DOMAIN workflows
  /\ LET workflow == workflows[threadId]
     IN  IF /\ workflow.status = "completed"
            /\ HasKey(workflow, "final_report")
            /\ FinalReportValue(workflow.final_report) # << >>
         THEN \E later \in now..MaxClock :
                LET written1 == "docx" \notin failing
                    written2 == "pdf" \notin failing
                    docx == SaveReport(disk, workflow.final_report, workflow.topic,
                                       <<"d","o","c","x">>, now, written1)
                    pdf == IF docx.ok
                           THEN SaveReport(docx.disk, workflow.final_report,
                                           workflow.topic, <<"p","d",
                                                 "f">>, later, written2)
                           ELSE [ok |-> FALSE, disk |-> docx.disk]
                IN  /\ reply' = StatusResponse(threadId, docx, pdf)
                    /\ disk' = pdf.disk
                    /\ now' = IF docx.ok THEN later ELSE now
         ELSE /\ reply' = StatusResponse(threadId, [ok |-> FALSE], [ok |-> FALSE])
              /\ UNCHANGED << disk, now >>
  /\ UNCHANGED << workflows, reporter, initializing, execs, cwd, call,
                  interview, failing >>

\* readdirSync(dir): the directories and files directly inside dir.
Readdir(d, dir) ==
  { p \in d.dirs \cup DOMAIN d.files :
      Len(p) = Len(dir) + 1 /\ SubSeq(p, 1, Len(dir)) = dir }

\* findFile(dir, fileName): the paths found, as a set (the order of the
\* array is the order readdirSync lists the directory in).
RECURSIVE FindFile(_, _, _)
FindFile(d, dir, fileName) ==
  IF dir \notin d.dirs THEN {}
  ELSE UNION { IF item \in d.dirs THEN FindFile(d, item, fileName)
               ELSE IF item[Len(item)] = fileName THEN { item } ELSE {}
               : item \in Readdir(d, dir) }

\* A route that tests the name for '..' only.
MutInvalidFileName(fileName) == fileName = << >> \/ Includes(fileName, <<".",
      ".">>)

\* !fileName || fileName.includes('..') || fileName.includes('/')
InvalidFileName(fileName) ==
  fileName = << >> \/ Includes(fileName, <<".",
        ".">>) \/ Includes(fileName, <<"/">>)

\* GET /download/:fileName and ReportService.downloadFile: files[0] is any
\* of the paths found, as readdirSync may list them in any order.
Download(fileName) ==
  /\ IF InvalidFileName(fileName)
     THEN reply' = [op |-> "download", http |-> 400]
     ELSE LET files == FindFile(disk, GeneratedReport(cwd), fileName)
          IN  IF files = {}
              THEN reply' = [op |-> "download", http |-> 404, file_name |-> fileName]
              ELSE \E file \in files :
                     reply' = [op |-> "download", http |-> 200,
                               file_name |-> fileName, body |-> disk.files[file]]
  /\ UNCHANGED << workflows, reporter, initializing, execs, now, disk, cwd,
                  call, interview, failing >>

\* A millisecond passes.
Tick ==
  /\ now < MaxClock
  /\ now' = now + 1
  /\ UNCHANGED << workflows, reporter, initializing, execs, reply, disk, cwd,
                  call, interview, failing >>

\* Topics of the completed run.
ExportTopics == { <<"A"," ","I">>, <<"a","/","b">>, <<"A","I",".",".">> }

\* File systems the service starts on: an empty one, and one that holds
\* earlier reports, a directory named like a file, and a file outside
\* generated_report.
InitialDisks ==
  LET out == GeneratedReport(ProjectRoot)
  IN  { EmptyDisk,
        [dirs |-> { ProjectRoot, out, out \o << <<"o","l",
              "d">> >>, out \o << <<"r",".","p","d","f">> >>,
                    out \o << <<"r",".","p","d","f">>, <<"s","u","b">> >> },
         files |-> (out \o << <<"o","l","d">>, <<"r",".","p","d",
               "f">> >>) :> Encoded([body |-> "old"], <<"p","d","f">>)
                   @@ (out \o << <<"r",".","p","d","f">>, <<"s","u",
                         "b">>, <<"r",".","p","d","f">> >>) :> Encoded([body |-> "sub"],
                         <<"p","d","f">>)
                   @@ (ProjectRoot \o << <<"s","e","c","r","e","t",".","t",
                         "x","t">> >>) :> Encoded([body |-> "secret"], <<"t","x",
                         "t">>)] }

\* Directories the process may be started in.
WorkingDirs == { ProjectRoot, ProjectRoot \o << <<"s","r","c">> >> }

\* File names a client asks /download for: traversal attempts, names that
\* are or are not in the tree, and the name of any file there is.
DownloadNames ==
  { << >>, <<".",".","/","s","e","c","r","e","t",".","t","x","t">>, <<"o",
        "l","d","/","r",".","p","d","f">>, <<"s","e","c","r","e","t",".","t",
        "x","t">>, <<"r",".","p","d","f">>, <<"o","l","d">> }
    \cup { file[Len(file)] : file \in DOMAIN disk.files }

\* A service with one run, completed by its first execution.
FileInit ==
  /\ \E topic \in ExportTopics :
       /\ workflows = Uuid(1) :>
            CompletedState([thread_id |-> Uuid(1), topic |-> topic,
                            max_analysts |-> 3, status |-> "in_progress",
                            start_time |-> "Date"],
                           [thread_id |-> GenThreadId(Uuid(1), 1),
                            analysts |-> [persona |-> "list"],
                            sections |-> [persona |-> "list"],
                            final_report |-> [body |-> "body", intro |-> "intro",
                                              concl |-> "concl"]])
       /\ execs = Uuid(1) :>
            << [origin |-> "start", topic |-> topic, maxAnalysts |-> 3,
                human_analyst_feedback |-> << >>, pc |-> "done",
                persona |-> "none", body |-> "none", intro |-> "none"] >>
  /\ reporter = "ready"
  /\ initializing = FALSE
  /\ reply = NoReply
  /\ now = 1
  /\ disk \in InitialDisks
  /\ cwd \in WorkingDirs
  /\ call = NoCall
  /\ interview = NoInterview
  /\ failing \in SUBSET Formats

FileNext ==
  \/ Tick
  \/ \E threadId \in DOMAIN workflows : GetReportStatusSaving(threadId)
  \/ \E fileName \in DownloadNames : Download(fileName)

FileSpec == FileInit /\ [][FileNext]_vars

\* The response r is the answer of a status poll that found run t completed.
IsCompletedPoll(r, t) ==
  /\ r.op = "getReportStatus"
  /\ r.success
  /\ r.thread_id = t
  /\ r.status = "completed"

\* C11: for a run that stays completed, a status poll that follows a
\* status poll returns the same document paths as that one and writes
\* nothing: the export is not performed again.
C11_ExportOncePerCompletion ==
  [][\A t \in DOMAIN workflows :
       (IsCompletedPoll(reply, t) /\ IsCompletedPoll(reply', t))
         => /\ reply'.docx_path = reply.docx_path
            /\ reply'.pdf_path = reply.pdf_path
            /\ disk' = disk
    ]_vars

\* The file lies below the directory root.
IsUnder(file, root) ==
  Len(file) > Len(root) /\ SubSeq(file, 1, Len(root)) = root

\* C12: /download answers with a file or with not-found only for a name that
\* holds neither '..' nor '/'; the bytes it answers with are those of a file
\* below cwd/generated_report whose own name is the requested name; and it
\* answers not-found only when there is no such file.
C12_DownloadExactNameUnderRoot ==
  reply.op = "download" =>
    LET root == GeneratedReport(cwd)
        named == { file \in DOMAIN disk.files :
                     IsUnder(file, root) /\ file[Len(file)] = reply.file_name }
    IN  /\ reply.http \in { 200, 400, 404 }
        /\ reply.http \in { 200, 404 } =>
             /\ reply.file_name # << >>
             /\ ~Includes(reply.file_name, <<".",".">>)
             /\ ~Includes(reply.file_name, <<"/">>)
        /\ reply.http = 200 => \E file \in named : disk.files[file] = reply.body
        /\ reply.http = 404 => named = {}

\* C12 witness: /download has answered with the bytes of a file two
\* directories below the root, on a file system that also holds a file
\* outside the root.
C12_Witness ==
  /\ reply.op = "download"
  /\ reply.http = 200
  /\ reply.body = Encoded([body |-> "sub"], <<"p","d","f">>)
  /\ (ProjectRoot \o << <<"s","e","c","r","e","t",".","t","x",
        "t">> >>) \in DOMAIN disk.files

----------------------------------------------------------------------------
(* The parser and finalizeReport as functions of their arguments.         *)

\* Largest number of lines of a text given to the parser.
MaxLines == 3

\* Lines the model's answer to the persona prompt is made of.
ParserLines ==
  { << >>, <<"N","a","m","e",":"," ","A","l">>, <<"n","a","m","e",
        ":">>, <<"*"," ","*","*","R","o","l","e",":","*","*"," ","D","e",
        "v">>, <<"R","o","l","e",":">>,
    <<"A","n","a","l","y","s","t"," ","1",":">>, <<"a","n","a","l","y","s",
          "t",":"," ","B","o"," ","L","i">>, <<"D","e","s","c","r","i","p",
          "t","i","o","n",":"," ","x">>,
    <<"A","n","n"," ","L","e","e"," ","m","e","t"," ","A","l"," ","B",
          "o">>, <<"C","y"," ","D","i",","," ","E","d"," ","F","u"," ","a",
          "n","d"," ","A","n","n"," ","L","e","e">> }

\* Texts of at most n lines.
RECURSIVE TextsOf(_)
TextsOf(n) ==
  IF n = 1 THEN ParserLines
  ELSE LET shorter == TextsOf(n - 1)
       IN  shorter \cup { text \o <<"\n">> \o line : text \in shorter, line \in ParserLines }

ParserTexts == TextsOf(MaxLines)

\* parseAnalystsFromResponse(content) is called.
ParseCalls == { [fn |-> "parseAnalystsFromResponse", content |-> content] :
                content \in ParserTexts }

\* The coordinator as the constructor leaves it, nothing else going on.
Quiet ==
  /\ workflows = << >>
  /\ reporter = "null"
  /\ initializing = TRUE
  /\ execs = << >>
  /\ reply = NoReply
  /\ now = 1
  /\ disk = EmptyDisk
  /\ cwd = ProjectRoot
  /\ interview = NoInterview
  /\ failing = {}

\* parseAnalystsFromResponse returns.
ParseReturns ==
  /\ call.fn = "parseAnalystsFromResponse"
  /\ ~HasKey(call, "result")
  /\ call' = SetKey(call, "result", ParseAnalystsFromResponse(call.content))
  /\ UNCHANGED << workflows, reporter, initializing, execs, reply, now, disk,
                  cwd, interview, failing >>

\* Largest number of '## Sources' blocks in a report body.
MaxSources == 2

\* What a report body may begin with.
BodyHeads == { << >>, <<"#","#"," ","I","n","s","i","g","h","t","s",
      "\n">>, <<"#","#"," ","I","n","s","i","g","h","t","s">> }

BodyMiddles == { << >>, <<"B","o","d","y">> }

\* A sources block: the header on a line of its own with or without text
\* after it, and the header not at the start of a line.
SourcesBlocks == { <<"\n","#","#"," ","S","o","u","r","c","e","s",
      "\n">>, <<"\n","#","#"," ","S","o","u","r","c","e","s","\n","S","r",
      "c","1">>, <<"#","#"," ","S","o","u","r","c","e","s","\n","S">> }

\* Ends of a report body: at most n sources blocks.
RECURSIVE BodyTails(_)
BodyTails(n) ==
  IF n = 0 THEN { << >> }
  ELSE LET shorter == BodyTails(n - 1)
       IN  shorter \cup { tail \o block : tail \in shorter, block \in SourcesBlocks }

\* finalizeReport(content, introduction, conclusion) is called.
FinalizeCalls ==
  { [fn |-> "finalizeReport", content |-> head \o middle \o tail,
     introduction |-> introduction, conclusion |-> conclusion] :
      head \in BodyHeads, middle \in BodyMiddles, tail \in BodyTails(MaxSources),
      introduction \in { << >>, <<"I","n","t","r",
            "o">> }, conclusion \in { << >>, <<"C","o","n","c","l">> } }

\* finalizeReport returns.
FinalizeReturns ==
  /\ call.fn = "finalizeReport"
  /\ ~HasKey(call, "result")
  /\ call' = SetKey(call, "result",
                    FinalizeReport(call.content, call.introduction, call.conclusion))
  /\ UNCHANGED << workflows, reporter, initializing, execs, reply, now, disk,
                  cwd, interview, failing >>

\* An answer of the model to the persona prompt with four full records.
FourRecords ==
  <<"N","a","m","e",":"," ","A","l","\n","R","o","l","e",":"," ","a","\n",
        "N","a","m","e",":"," ","B","o","\n","R","o","l","e",":"," ","b",
        "\n","N","a","m","e",":"," ","C","y","\n","R","o","l","e",":"," ",
        "c","\n","N","a","m","e",":"," ","D","i","\n","R","o","l","e",":",
        " ","d">>

\* max_analysts passed to createAnalysts.
CreateAnalystsMax == { 1, 2, 3 }

\* createAnalysts(input) is called; content is what the model answers to the
\* prompt made of input.topic, input.max_analysts and the feedback.
CreateAnalystsCalls ==
  { [fn |-> "createAnalysts",
     input |-> [topic |-> <<"A","I">>, max_analysts |-> m,
                human_analyst_feedback |-> << >>],
     content |-> content] :
      m \in CreateAnalystsMax, content \in TextsOf(2) \cup { FourRecords } }

\* createAnalysts returns the analysts parsed from the answer.
CreateAnalystsReturns ==
  /\ call.fn = "createAnalysts"
  /\ ~HasKey(call, "result")
  /\ call' = SetKey(call, "result", ParseAnalystsFromResponse(call.content))
  /\ UNCHANGED << workflows, reporter, initializing, execs, reply, now, disk,
                  cwd, interview, failing >>

FunctionInit ==
  Quiet /\ call \in ParseCalls \cup FinalizeCalls \cup CreateAnalystsCalls

FunctionNext == ParseReturns \/ FinalizeReturns \/ CreateAnalystsReturns

FunctionSpec == FunctionInit /\ [][FunctionNext]_vars

\* The call of the given function has returned.
Returned(fn) == call.fn = fn /\ HasKey(call, "result")

\* C14: whatever the text, parseAnalystsFromResponse returns at least one
\* analyst, and every analyst it returns has a name, a role, an affiliation
\* and a description, none of them empty.
C14_ParserReturnsCompleteAnalysts ==
  Returned("parseAnalystsFromResponse") =>
    /\ Len(call.result) >= 1
    /\ \A i \in 1..Len(call.result) :
         /\ DOMAIN call.result[i] = { "name", "role", "affiliation", "description" }
         /\ \A k \in DOMAIN call.result[i] : call.result[i][k] # << >>

\* C14 witness: the parser has returned an analyst whose role and whose
\* description are the defaults, for a text that gives an empty role.
C14_Witness ==
  /\ Returned("parseAnalystsFromResponse")
  /\ call.content = <<"N","a","m","e",":"," ","A","l","\n","R","o","l","e",
        ":">>
  /\ Len(call.result) = 1
  /\ call.result[1].name = <<"A","l">>
  /\ call.result[1].role = <<"R","e","s","e","a","r","c","h"," ","A","n","a",
        "l","y","s","t">>
  /\ call.result[1].description = <<"A","l"," ","p","r","o","v","i","d","e",
        "s"," ","e","x","p","e","r","t"," ","a","n","a","l","y","s","i","s",
        " ","o","n"," ","t","h","e"," ","t","o","p","i","c",".">>

\* No line of the text is a 'name:' line or an 'analyst N:' line, so the
\* scan of the lines yields no record.
NoRecordLine(content) ==
  \A line \in Range(Split(content, <<"\n">>)) :
    /\ ~StartsWith(ToLowerCase(CleanLine(line)), <<"n","a","m","e",":">>)
    /\ ~MatchesAnalystMarker(CleanLine(line))

\* C15: for a text none of whose lines yields a record, the parser returns
\* exactly three analysts: the distinct capitalised names of the text in
\* order of appearance, at most three, then placeholders 'Analyst n' with n
\* the number of the slot counted from one; the roles are Senior Economist,
\* Data Analyst and Research Analyst in slots 0, 1 and 2.
C15_FallbackSynthesizesThree ==
  (Returned("parseAnalystsFromResponse") /\ NoRecordLine(call.content)) =>
    LET candidates == Unique(NameMatches(call.content, 1))
        roles == << <<"S","e","n","i","o","r"," ","E","c","o","n","o","m",
              "i","s","t">>, <<"D","a","t","a"," ","A","n","a","l","y","s",
              "t">>, <<"R","e","s","e","a","r","c","h"," ","A","n","a","l",
              "y","s","t">> >>
    IN  /\ Len(call.result) = 3
        /\ \A i \in 1..3 :
             /\ call.result[i].role = roles[i]
             /\ call.result[i].name =
                  IF i <= Len(candidates) THEN candidates[i]
                  ELSE <<"A","n","a","l","y","s","t",
                        " ">> \o << Digits[i + 1] >>

\* C15 witness: a text with two names and no record line has given two
\* named analysts and one placeholder.
C15_Witness ==
  /\ Returned("parseAnalystsFromResponse")
  /\ call.content = <<"R","o","l","e",":","\n","A","n","n"," ","L","e","e",
        " ","m","e","t"," ","A","l"," ","B","o">>
  /\ NoRecordLine(call.content)
  /\ Len(call.result) = 3
  /\ call.result[1].name = <<"A","n","n"," ","L","e","e">>
  /\ call.result[2].name = <<"A","l"," ","B","o">>
  /\ call.result[3].name = <<"A","n","a","l","y","s","t"," ","3">>

\* The texts finalizeReport looks for and puts in.
InsightsHeading == <<"#","#"," ","I","n","s","i","g","h","t","s">>
SourcesHeading == <<"#","#"," ","S","o","u","r","c","e","s">>
SourcesLine == <<"\n","#","#"," ","S","o","u","r","c","e","s","\n">>
SectionSeparator == <<"\n","\n","-","-","-","\n","\n">>
SourcesTitle == <<"\n","\n","#","#"," ","S","o","u","r","c","e","s","\n">>

\* The content of a finalizeReport call once a leading '## Insights' is
\* taken off and the rest trimmed.
WithoutInsights(content) ==
  IF StartsWith(content, InsightsHeading)
  THEN Trim(DropFirst(content, Len(InsightsHeading)))
  ELSE content

\* The call and the report of the worked example.
ExampleContent == <<"#","#"," ","I","n","s","i","g","h","t","s","\n","B","o",
      "d","y","\n","#","#"," ","S","o","u","r","c","e","s","\n","S","r","c",
      "1">>
ExampleReport ==
  <<"I","n","t","r","o","\n","\n","-","-","-","\n","\n","B","o","d","y","\n",
        "\n","-","-","-","\n","\n","C","o","n","c","l","\n","\n","#","#"," ",
        "S","o","u","r","c","e","s","\n","S","r","c","1">>
IsExampleCall ==
  /\ call.content = ExampleContent
  /\ call.introduction = <<"I","n","t","r","o">>
  /\ call.conclusion = <<"C","o","n","c","l">>

\* C16: finalizeReport("## Insights\nBody\n## Sources\nSrc1", "Intro",
\* "Concl") is "Intro\n\n---\n\nBody\n\n---\n\nConcl\n\n## Sources\nSrc1";
\* and whenever introduction and conclusion are not empty and the body
\* without its leading '## Insights' is cut by '\n## Sources\n' into a body
\* and a sources text that is not empty, the report is the introduction, the
\* separator, that body, the separator, the conclusion, '\n\n## Sources\n'
\* and the sources text.
C16_FinalizeRelocatesSources ==
  Returned("finalizeReport") =>
    LET parts == Split(WithoutInsights(call.content), SourcesLine)
    IN  /\ IsExampleCall => call.result = ExampleReport
        /\ (/\ call.introduction # << >>
            /\ call.conclusion # << >>
            /\ Len(parts) = 2
            /\ parts[2] # << >>)
             => call.result = call.introduction \o SectionSeparator
                                \o parts[1] \o SectionSeparator
                                \o call.conclusion \o SourcesTitle
                                \o parts[2]

\* C16 witness: the call of the example has returned the report of the
\* example.
C16_Witness ==
  /\ Returned("finalizeReport")
  /\ IsExampleCall
  /\ call.result = ExampleReport

\* The body holds no '## Sources' at all.
NoSources(content) == ~Includes(content, SourcesHeading)

\* C17 as stated: for every body without a sources block,
\* finalizeReport(body, "", "") is the body itself.
C17_FinalizeIdentity ==
  (/\ Returned("finalizeReport")
   /\ call.introduction = << >>
   /\ call.conclusion = << >>
   /\ NoSources(call.content))
    => call.result = call.content

\* C17 amended: for every body without a sources block that does not begin
\* with '## Insights', finalizeReport(body, "", "") is the body itself; a
\* body that begins with '## Insights' comes back without that heading and
\* trimmed.
C17_FinalizeIdentityUnlessInsights ==
  (/\ Returned("finalizeReport")
   /\ call.introduction = << >>
   /\ call.conclusion = << >>
   /\ NoSources(call.content))
    => call.result = WithoutInsights(call.content)

\* C17 witness: finalizeReport("Body", "", "") has returned "Body".
C17_Witness ==
  /\ Returned("finalizeReport")
  /\ call.content = <<"B","o","d","y">>
  /\ call.introduction = << >>
  /\ call.conclusion = << >>
  /\ call.result = <<"B","o","d","y">>

\* The body and the sources text finalizeReport works with after the strip
\* and the split, and the segments it puts around the body.
BodyOf(content) == SplitSources(StripInsights(content)).content
SourcesOf(content) == SplitSources(StripInsights(content)).sources
WasSplit(content) == SplitSources(StripInsights(content)).found

RECURSIVE JoinSegments(_)
\* The segments joined by the separator.
JoinSegments(segs) ==
  IF segs = << >> THEN << >>
  ELSE IF Len(segs) = 1 THEN segs[1]
  ELSE segs[1] \o SectionSeparator \o JoinSegments(Tail(segs))

\* The segments that are not empty, in order.
NonEmptySegments(segs) == SelectSeq(segs, LAMBDA s : s # << >>)

\* C18: the report of finalizeReport holds the body segment, and begins with
\* the non-empty segments among introduction, body and conclusion joined by
\* '\n\n---\n\n' (no separator next to an empty segment); what follows them
\* is nothing or the sources heading and text.
C18_SeparatorOnlyBetweenSegments ==
  Returned("finalizeReport") =>
    LET body == BodyOf(call.content)
        joined == JoinSegments(NonEmptySegments(
                    << call.introduction, body, call.conclusion >>))
    IN  /\ Includes(call.result, body)
        /\ StartsWith(call.result, joined)
        /\ DropFirst(call.result, Len(joined))
             \in { << >>, SourcesTitle \o SourcesOf(call.content) }

\* The number of places where the header line '\n## Sources\n' stands in s.
HeaderCount(s) ==
  Cardinality({ i \in 1..Len(s) : MatchesAt(s, SourcesLine, i) })

\* The report when the body is used unmodified and no sources are appended.
Unsplit(content, introduction, conclusion) ==
  (IF introduction # << >> THEN introduction \o SectionSeparator ELSE << >>)
  \o WithoutInsights(content)
  \o (IF conclusion # << >> THEN SectionSeparator \o conclusion ELSE << >>)

\* C19 as stated: a body with no header line or with two or more header
\* lines is used unmodified and gets no sources block.
C19_SplitOnlyOnSingleHeader ==
  (/\ Returned("finalizeReport")
   /\ HeaderCount(WithoutInsights(call.content)) # 1)
    => call.result
         = Unsplit(call.content, call.introduction, call.conclusion)

\* C19 amended: the body is split only when cutting it at every
\* '\n## Sources\n', left to right without overlap, gives exactly two
\* parts; otherwise the body is used unmodified and no sources block is
\* appended.  Two header lines that share a line break are one cut, and the
\* second header then begins the sources text.
C19_SplitOnlyOnTwoParts ==
  Returned("finalizeReport") =>
    LET parts == Split(WithoutInsights(call.content), SourcesLine)
    IN  IF Len(parts) = 2
        THEN /\ BodyOf(call.content) = parts[1]
             /\ SourcesOf(call.content) = parts[2]
             /\ call.result
                  = (IF call.introduction # << >>
                     THEN call.introduction \o SectionSeparator ELSE << >>)
                    \o parts[1]
                    \o (IF call.conclusion # << >>
                        THEN SectionSeparator \o call.conclusion ELSE << >>)
                    \o (IF parts[2] # << >>
                        THEN SourcesTitle \o parts[2] ELSE << >>)
        ELSE call.result
               = Unsplit(call.content, call.introduction, call.conclusion)

\* C19 witness: a body with two separate header lines has come back
\* unmodified.
C19_Witness ==
  /\ Returned("finalizeReport")
  /\ Len(Split(call.content, SourcesLine)) = 3
  /\ call.introduction = << >>
  /\ call.conclusion = << >>
  /\ call.result = call.content

\* C20: whenever finalizeReport splits the body, the report ends with the
\* sources heading followed by the sources text, the text being empty
\* included.
C20_SourcesHeadingKept ==
  (/\ Returned("finalizeReport")
   /\ WasSplit(call.content))
    => LET tail == SourcesTitle \o SourcesOf(call.content)
           n == Len(call.result)
       IN  /\ n >= Len(tail)
           /\ SubSeq(call.result, n - Len(tail) + 1, n) = tail

----------------------------------------------------------------------------
(* The interview graph of InterviewGraphBuilder.                           *)

\* The longest result list the web search returns here.
MaxDocs == 2

\* The graph build() declares: its nodes, entry point, edges and finish point.
Nodes ==
  { "ask_question", "search_web", "generate_answer", "save_interview",
    "write_section" }
EntryPoint == "ask_question"
Edges ==
  [ ask_question |-> "search_web",
    search_web |-> "generate_answer",
    generate_answer |-> "save_interview",
    save_interview |-> "write_section" ]
FinishPoint == "write_section"

\* A graph that asks again after each answer.
MutNextNode(n) ==
  IF n = FinishPoint THEN "END"
  ELSE IF n = "generate_answer" THEN "ask_question"
  ELSE Edges[n]

\* The node that runs after n: the target of its edge, or the end of the run
\* after the finish point.
NextNode(n) == IF n = FinishPoint THEN "END" ELSE Edges[n]

\* How the graph merges the value a node returns for an array key into the
\* state.  The schema of build() declares the keys as arrays with default []
\* and names no reducer, so both a graph that appends the returned array and
\* one that puts it in place of the old value are possible.
Channels == { "append", "replace" }
Merge(channel, old, new) == IF channel = "append" THEN old \o new ELSE new

\* The analysts, the turns and the first messages a run is started with.
InterviewAnalysts ==
  { [name |-> <<"A","l">>, description |-> <<"d">>, persona |-> <<"p">>],
    [name |-> <<"B","o">>, description |-> <<"e">>] }
MaxTurnsChoices == { 1, 2, 3 }
FirstMessages == { << >>, << [content |-> <<"H","i">>, role |-> <<"s","y",
      "s","t","e","m">>] >> }

\* What the model answers, and the lists the web search returns: every list
\* of at most MaxDocs documents, or nothing at all.
LlmContents == { <<"x">>, <<"y">> }
Docs ==
  { [url |-> <<"u">>, content |-> <<"c">>], [url |-> << >>, content |-> <<"c">>],
    [url |-> <<"u">>, content |-> << >>] }
RECURSIVE DocLists(_)
DocLists(n) ==
  IF n = 0 THEN { << >> }
  ELSE DocLists(n - 1)
       \cup { Append(l, d) : l \in { x \in DocLists(n - 1) : Len(x) = n - 1 },
                             d \in Docs }
SearchResults ==
  { [absent |-> TRUE] } \cup { [absent |-> FALSE, docs |-> l] : l \in DocLists(MaxDocs) }

NoSearchResults == <<"[","N","o"," ","s","e","a","r","c","h"," ","r","e","s",
      "u","l","t","s"," ","f","o","u","n","d",".","]">>
NoContext == <<"[","N","o"," ","c","o","n","t","e","x","t"," ","a","v","a",
      "i","l","a","b","l","e",".","]">>

\* One search result as searchWeb formats it.
FormatDoc(doc) ==
  <<"<","D","o","c","u","m","e","n","t"," ","h","r","e","f","=",
        "\"">> \o (IF doc.url # << >> THEN doc.url ELSE <<"#">>)
  \o <<"\"","/",">","\n">> \o doc.content \o <<"\n","<","/","D","o","c","u",
        "m","e","n","t",">">>

\* A searchWeb that has no placeholder for an empty result list.
MutSearchContext(searchDocs) ==
  IF searchDocs.absent THEN << NoSearchResults >>
  ELSE IF Len(searchDocs.docs) = 0 THEN << >>
  ELSE << Join([i \in 1..Len(searchDocs.docs) |->
                  FormatDoc(searchDocs.docs[i])],
               SectionSeparator) >>

\* The context block searchWeb returns for a result list.
SearchContext(searchDocs) ==
  IF searchDocs.absent THEN << NoSearchResults >>
  ELSE IF Len(searchDocs.docs) = 0 THEN << NoSearchResults >>
  ELSE << Join([i \in 1..Len(searchDocs.docs) |->
                  FormatDoc(searchDocs.docs[i])],
               SectionSeparator) >>

\* The context a stage puts in its prompt.
JoinedContext(context) ==
  IF Join(context, <<"\n">>) # << >> THEN Join(context, <<"\n">>) ELSE NoContext

\* A transcript that leaves the roles out.
MutTranscript(messages) ==
  Join([i \in 1..Len(messages) |-> messages[i].content], <<"\n">>)

\* The transcript saveInterview renders.
Transcript(messages) ==
  Join([i \in 1..Len(messages) |->
          (IF HasKey(messages[i], "role") /\ messages[i].role # << >>
           THEN messages[i].role ELSE <<"u","n","k","n","o","w","n">>)
          \o <<":"," ">> \o messages[i].content],
       <<"\n">>)

\* The message of the ResearchAnalystException each stage throws.
StageError ==
  [ ask_question |-> "Failed to generate analyst question",
    search_web |-> "Failed during web search execution",
    generate_answer |-> "Failed to generate expert answer",
    save_interview |-> "Failed to save interview transcript",
    write_section |-> "Failed to generate report section" ]

\* What a stage passes to llm.invoke: the prompt template with its
\* arguments, and the messages that follow the system message.  The record
\* of the run keeps the last of them.
NoPrompt == [ template |-> "none", args |-> << >>, messages |-> << >> ]
Persona(analyst) == IF HasKey(analyst, "persona") THEN analyst.persona ELSE << >>
UseThisSource == <<"U","s","e"," ","t","h","i","s"," ","s","o","u","r","c",
      "e"," ","t","o"," ","w","r","i","t","e"," ","y","o","u","r"," ","s",
      "e","c","t","i","o","n",":"," ">>
Asked(node) ==
  CASE node = "ask_question" ->
         [ template |-> "ANALYST_ASK_QUESTIONS",
           args |-> << Persona(interview.analyst) >>,
           messages |-> interview.messages ]
    [] node = "search_web" ->
         [ template |-> "GENERATE_SEARCH_QUERY", args |-> << >>,
           messages |-> interview.messages ]
    [] node = "generate_answer" ->
         [ template |-> "GENERATE_ANSWERS",
           args |-> << Persona(interview.analyst),
                       JoinedContext(interview.context) >>,
           messages |-> interview.messages ]
    [] node = "write_section" ->
         [ template |-> "WRITE_SECTION",
           args |-> << interview.analyst.description >>,
           messages |-> << [ content |-> UseThisSource
                                         \o JoinedContext(interview.context) ] >> ]
    [] OTHER -> interview.prompt

\* build() and the start of a run: the state holds the defaults of the
\* schema and what the caller passes.  Beside the state of the graph the
\* record keeps what the log of the run shows: the nodes that ran, the
\* services they invoked and the result lists the search returned.
Build ==
  /\ interview = NoInterview
  /\ \E analyst \in InterviewAnalysts, turns \in MaxTurnsChoices,
        first \in FirstMessages, channel \in Channels :
       interview' = [ node |-> EntryPoint, channel |-> channel,
                      analyst |-> analyst, max_num_turns |-> turns,
                      messages |-> first, context |-> << >>,
                      interview |-> << >>, sections |-> << >>,
                      ran |-> << >>, invoked |-> << >>, found |-> << >>,
                      prompt |-> NoPrompt ]
  /\ UNCHANGED << workflows, reporter, initializing, execs, reply, now, disk,
                  cwd, call,
                  failing >>

\* A node has returned: its update is merged and the edge followed.
Returned_(node, key, value, invoked) ==
  [ interview EXCEPT !.node = NextNode(node),
                     ![key] = IF key = "interview" THEN value
                              ELSE Merge(interview.channel, @, value),
                     !.ran = Append(@, node),
                     !.invoked = @ \o invoked,
                     !.prompt = Asked(node) ]

\* A failure that carries the same message whatever the stage.
MutThrown(node, invoked) ==
  [ interview EXCEPT !.node = "failed",
                     !.ran = Append(@, node),
                     !.invoked = @ \o invoked,
                     !.prompt = Asked(node) ]
    @@ [ error |-> [ name |-> "ResearchAnalystException",
                     message |-> "Failed to build interview graph workflow" ] ]

\* A node has thrown: the run ends with the exception of that stage.
Thrown(node, invoked) ==
  [ interview EXCEPT !.node = "failed",
                     !.ran = Append(@, node),
                     !.invoked = @ \o invoked,
                     !.prompt = Asked(node) ]
    @@ [ error |-> [ name |-> "ResearchAnalystException",
                     message |-> StageError[node] ] ]

Rest ==
  UNCHANGED << workflows, reporter, initializing, execs, reply, now, disk,
               cwd, call,
                  failing >>

GenerateQuestion ==
  /\ interview.node = "ask_question"
  /\ \/ \E content \in LlmContents :
          interview' = Returned_("ask_question", "messages",
                                 << [content |-> content] >>, << "llm" >>)
     \/ interview' = Thrown("ask_question", << "llm" >>)
  /\ Rest

SearchWeb ==
  /\ interview.node = "search_web"
  /\ \/ \E searchDocs \in SearchResults :
          interview' = [ Returned_("search_web", "context",
                                   SearchContext(searchDocs),
                                   << "llm", "tavilySearch" >>)
                         EXCEPT !.found = Append(@, searchDocs) ]
     \/ interview' = Thrown("search_web", << "llm" >>)
     \/ interview' = Thrown("search_web", << "llm", "tavilySearch" >>)
  /\ Rest

GenerateAnswer ==
  /\ interview.node = "generate_answer"
  /\ \/ \E content \in LlmContents :
          interview' = Returned_("generate_answer", "messages",
                                 << [content |-> content, role |-> <<"e","x",
                                       "p","e","r","t">>] >>,
                                 << "llm" >>)
     \/ interview' = Thrown("generate_answer", << "llm" >>)
  /\ Rest

SaveInterview ==
  /\ interview.node = "save_interview"
  /\ interview' = Returned_("save_interview", "interview",
                            Transcript(interview.messages), << >>)
  /\ Rest

WriteSection ==
  /\ interview.node = "write_section"
  /\ \/ \E content \in LlmContents :
          interview' = Returned_("write_section", "sections", << content >>,
                                 << "llm" >>)
     \/ interview' = Thrown("write_section", << "llm" >>)
  /\ Rest

InterviewInit == Quiet /\ call = NoCall

InterviewNext ==
  \/ Build
  \/ GenerateQuestion
  \/ SearchWeb
  \/ GenerateAnswer
  \/ SaveInterview
  \/ WriteSection

InterviewSpec == InterviewInit /\ [][InterviewNext]_vars

\* The search of the last Search Web step found nothing.
FoundNothing(iv) ==
  /\ iv.found # << >>
  /\ LET last == iv.found[Len(iv.found)]
     IN  last.absent \/ Len(last.docs) = 0

StageOrder ==
  << "ask_question", "search_web", "generate_answer", "save_interview",
     "write_section" >>

\* C22: whatever max_num_turns is, the nodes that ran are always the first
\* stages of the pipeline in order, each once; the node to run is the next
\* stage; and the run has finished exactly when all five have run.
C22_StagesRunOnceInOrder ==
  interview # NoInterview =>
    /\ Len(interview.ran) <= Len(StageOrder)
    /\ interview.ran = SubSeq(StageOrder, 1, Len(interview.ran))
    /\ interview.node \in Nodes
         => interview.node = StageOrder[Len(interview.ran) + 1]
    /\ interview.node = "END" <=> (~HasKey(interview, "error")
                                   /\ interview.ran = StageOrder)

\* C22 witness: a run with max_num_turns = 3 has finished.
C22_Witness ==
  /\ interview.node = "END"
  /\ interview.max_num_turns = 3
  /\ interview.ran = StageOrder

\* The services each stage invokes, in order.
Invokes ==
  [ ask_question |-> << "llm" >>,
    search_web |-> << "llm", "tavilySearch" >>,
    generate_answer |-> << "llm" >>,
    save_interview |-> << >>,
    write_section |-> << "llm" >> ]

RECURSIVE InvokedBy(_)
\* The invocations of the stages of a list, one after the other.
InvokedBy(stages) ==
  IF stages = << >> THEN << >>
  ELSE Invokes[Head(stages)] \o InvokedBy(Tail(stages))

\* C23: a run that failed carries a ResearchAnalystException with the
\* message of the stage that failed, the messages of the stages differ, the
\* failing stage made each of its calls at most once (the call that failed
\* was its last), and nothing runs after the failure.
C23_StageFailureAborts ==
  /\ [](interview.node = "failed" =>
          LET stage == interview.ran[Len(interview.ran)]
              before == SubSeq(interview.ran, 1, Len(interview.ran) - 1)
              mine == DropFirst(interview.invoked, Len(InvokedBy(before)))
          IN  /\ interview.error.name = "ResearchAnalystException"
              /\ interview.error.message = StageError[stage]
              /\ \A other \in Nodes \ {stage} :
                   StageError[other] # interview.error.message
              /\ interview.ran = SubSeq(StageOrder, 1, Len(interview.ran))
              /\ SubSeq(interview.invoked, 1, Len(InvokedBy(before)))
                   = InvokedBy(before)
              /\ mine # << >>
              /\ mine = SubSeq(Invokes[stage], 1, Len(mine)))
  /\ [][interview.node = "failed" => interview' = interview]_vars

\* C23 witness: the web search itself failed, after the query was made.
C23_Witness ==
  /\ interview.node = "failed"
  /\ interview.ran = << "ask_question", "search_web" >>
  /\ interview.invoked = << "llm", "llm", "tavilySearch" >>
  /\ interview.error.message = "Failed during web search execution"

----------------------------------------------------------------------------
(* The two encoders of the report: what saveAsDocx puts in the document    *)
(* and what saveAsPdf draws.                                               *)

\* The most lines of text, after the leading blank lines, given to the
\* encoders here.
MaxLayoutLines == 2

\* The paragraph saveAsDocx makes of one line.
DocxParagraph(line) ==
  IF StartsWith(line, <<"#"," ">>)
  THEN [heading |-> "HEADING_1", text |-> DropFirst(line, 2)]
  ELSE IF StartsWith(line, <<"#","#"," ">>)
  THEN [heading |-> "HEADING_2", text |-> DropFirst(line, 3)]
  ELSE IF StartsWith(line, <<"#","#","#"," ">>)
  THEN [heading |-> "HEADING_3", text |-> DropFirst(line, 4)]
  ELSE [heading |-> "none", text |-> line]

\* The paragraphs of the document: one for each line that is not blank.
DocxParagraphs(text) ==
  LET paragraphs == SelectSeq(Split(text, <<"\n">>),
                              LAMBDA line : Trim(line) # << >>)
  IN  [i \in 1..Len(paragraphs) |-> DocxParagraph(paragraphs[i])]

\* The page of saveAsPdf, in points.
TopMargin == 50
LineHeight == 15
PageHeight == 792
BottomMargin == 50
ContentWidth == 500
TextLeft == 50

\* The cursor y is kept in half points, so that the advances after a heading
\* (lineHeight * 1.5, * 1.3 and * 1.2: 22.5, 19.5 and 18 points) are whole.
HalfPoints(points) == 2 * points
AdvanceBody == HalfPoints(LineHeight)
AdvanceHeading1 == (HalfPoints(LineHeight) * 15) \div 10
AdvanceHeading2 == (HalfPoints(LineHeight) * 13) \div 10
AdvanceHeading3 == (HalfPoints(LineHeight) * 12) \div 10

\* doc.widthOfString in Helvetica 11, to the point: the widths of the
\* letters added up.  A letter of the texts here stands for a run of letters
\* without a space: "w" for a word 200 points wide, "W" for one of 600
\* points, longer than a line (a long link, say).
CharWidth(c) ==
  IF c = "W" THEN 600 ELSE IF c = "w" THEN 200 ELSE IF c = " " THEN 3 ELSE 6

RECURSIVE WidthOfString(_)
WidthOfString(s) ==
  IF s = << >> THEN 0 ELSE CharWidth(Head(s)) + WidthOfString(Tail(s))

\* doc.text(text, 50, y) in the current font, for line number from of the
\* text.
Draw(st, text, size, font, from) ==
  [ st EXCEPT !.draws = Append(@, [ text |-> text, x |-> TextLeft, y |-> st.y,
                                    page |-> st.page, size |-> size,
                                    font |-> font, from |-> from ]) ]

Advance(st, by) == [ st EXCEPT !.y = @ + by ]

RECURSIVE MutWrapWords(_, _, _, _)
\* A wrap loop that starts the next line empty after it has drawn one.
MutWrapWords(st, words, currentLine, from) ==
  IF words = << >>
  THEN IF currentLine # << >>
       THEN Advance(Draw(st, currentLine, 11, "Helvetica", from), AdvanceBody)
       ELSE st
  ELSE LET word == Head(words)
           testLine == IF currentLine # << >>
                       THEN currentLine \o <<" ">> \o word
                       ELSE word
       IN  IF WidthOfString(testLine) > ContentWidth
           THEN MutWrapWords(Advance(Draw(st, currentLine, 11, "Helvetica", from),
                                     AdvanceBody),
                             Tail(words), << >>, from)
           ELSE MutWrapWords(st, Tail(words), testLine, from)

RECURSIVE WrapWords(_, _, _, _)
\* The loop over the words of a line that is too wide, and the rest of the
\* line drawn after it.
WrapWords(st, words, currentLine, from) ==
  IF words = << >>
  THEN IF currentLine # << >>
       THEN Advance(Draw(st, currentLine, 11, "Helvetica", from), AdvanceBody)
       ELSE st
  ELSE LET word == Head(words)
           testLine == IF currentLine # << >>
                       THEN currentLine \o <<" ">> \o word
                       ELSE word
       IN  IF WidthOfString(testLine) > ContentWidth
           THEN WrapWords(Advance(Draw(st, currentLine, 11, "Helvetica", from),
                                  AdvanceBody),
                          Tail(words), word, from)
           ELSE WrapWords(st, Tail(words), testLine, from)

\* The new page saveAsPdf starts when the cursor is below the printable area.
NewPageIfNeeded(st) ==
  IF st.y > HalfPoints(PageHeight - BottomMargin)
  THEN [ st EXCEPT !.page = @ + 1, !.y = HalfPoints(TopMargin) ]
  ELSE st

\* One turn of the loop over the lines of the text.
PdfLine(st, rawLine, from) ==
  LET line == Trim(rawLine)
      at == NewPageIfNeeded(st)
  IN  IF line = << >> THEN Advance(st, AdvanceBody)
      ELSE IF StartsWith(line, <<"#"," ">>)
      THEN Advance(Draw(at, DropFirst(line, 2), 16, "Helvetica-Bold", from),
                   AdvanceHeading1)
      ELSE IF StartsWith(line, <<"#","#"," ">>)
      THEN Advance(Draw(at, DropFirst(line, 3), 13, "Helvetica-Bold", from),
                   AdvanceHeading2)
      ELSE IF StartsWith(line, <<"#","#","#"," ">>)
      THEN Advance(Draw(at, DropFirst(line, 4), 11, "Helvetica-Bold", from),
                   AdvanceHeading3)
      ELSE IF WidthOfString(line) > ContentWidth
      THEN WrapWords(at, Split(line, <<" ">>), << >>, from)
      ELSE Advance(Draw(at, line, 11, "Helvetica", from), AdvanceBody)

RECURSIVE PdfLines(_, _, _)
\* The loop over the lines, from line number from on.  (The cursor is never
\* above the top margin; the test makes the state after a line a value
\* before the next line is looked at.)
PdfLines(st, lines, from) ==
  IF from > Len(lines) THEN st
  ELSE LET next == PdfLine(st, lines[from], from)
       IN  IF next.y >= HalfPoints(TopMargin)
           THEN PdfLines(next, lines, from + 1)
           ELSE next

\* What saveAsPdf draws for a text: the calls of doc.text in order, each with
\* its page and the place of the cursor.
PdfDrawn(text) ==
  PdfLines([ y |-> HalfPoints(TopMargin), page |-> 1, draws |-> << >> ],
           Split(text, <<"\n">>), 1).draws

\* The texts given to the encoders: a run of blank lines, none or enough to
\* reach the foot of the first page, and then at most MaxLayoutLines lines.
LayoutLines ==
  { <<"#"," ","T">>, <<"#","#"," ","T">>, <<"#","#","#"," ","T">>, <<" ","#",
        " ","T">>, <<"#","#"," ">>, <<"b"," ">>, << >>,
    <<"w"," ","w"," ","w">>, <<"W">>, <<"b"," ","W">>,
    <<"w"," ","w"," "," ","w">> }
BlankRuns == { 0, 46, 47 }
BlankRun(n) == [i \in 1..n |-> "\n"]
RECURSIVE LayoutTexts(_)
LayoutTexts(n) ==
  IF n = 0 THEN { << >> }
  ELSE LayoutTexts(n - 1)
       \cup { IF t = << >> THEN l ELSE t \o <<"\n">> \o l :
                t \in LayoutTexts(n - 1), l \in LayoutLines }
EncodeCalls ==
  { [fn |-> "saveReport", text |-> BlankRun(n) \o t] :
      n \in BlankRuns, t \in LayoutTexts(MaxLayoutLines) }

\* saveAsDocx and saveAsPdf return for the text of the call.
SaveAsDocxReturns ==
  /\ call.fn = "saveReport"
  /\ ~HasKey(call, "docx")
  /\ call' = SetKey(call, "docx", DocxParagraphs(call.text))
  /\ UNCHANGED << workflows, reporter, initializing, execs, reply, now, disk,
                  cwd, interview, failing >>

SaveAsPdfReturns ==
  /\ call.fn = "saveReport"
  /\ ~HasKey(call, "pdf")
  /\ call' = SetKey(call, "pdf", PdfDrawn(call.text))
  /\ UNCHANGED << workflows, reporter, initializing, execs, reply, now, disk,
                  cwd, interview, failing >>

EncoderInit == Quiet /\ call \in EncodeCalls

EncoderNext == SaveAsDocxReturns \/ SaveAsPdfReturns

EncoderSpec == EncoderInit /\ [][EncoderNext]_vars

\* Both encoders have returned for the text of the call.
Encoded2 == call.fn = "saveReport" /\ HasKey(call, "docx") /\ HasKey(call, "pdf")

\* The heading level a drawing call of saveAsPdf shows by its font.
PdfHeading(draw) ==
  IF draw.font = "Helvetica-Bold"
  THEN (IF draw.size = 16 THEN "HEADING_1"
        ELSE IF draw.size = 13 THEN "HEADING_2" ELSE "HEADING_3")
  ELSE "none"

\* The numbers of the lines of a text that are not blank, in order.
NonBlank(lines) ==
  SelectSeq([i \in 1..Len(lines) |-> i], LAMBDA i : Trim(lines[i]) # << >>)

\* C25: for every text the two encoders agree line by line: the lines that
\* are not blank are the same for both, each of them is a heading of the
\* same level or body text for both, and for a heading both take a prefix of
\* the same length off the line (counted from the first character that is
\* not white space).
C25_EncodersClassifyAlike ==
  Encoded2 =>
    LET lines == Split(call.text, <<"\n">>)
        shown == NonBlank(lines)
    IN  /\ Len(call.docx) = Len(shown)
        /\ \A d \in DOMAIN call.pdf :
             \E k \in DOMAIN shown : shown[k] = call.pdf[d].from
        /\ \A k \in DOMAIN shown :
             /\ \E d \in DOMAIN call.pdf : call.pdf[d].from = shown[k]
             /\ \A d \in DOMAIN call.pdf :
                  call.pdf[d].from = shown[k] =>
                    /\ PdfHeading(call.pdf[d]) = call.docx[k].heading
                    /\ call.docx[k].heading # "none" =>
                         Len(Trim(lines[shown[k]])) - Len(call.pdf[d].text)
                           = Len(Trim(lines[shown[k]]))
                               - Len(Trim(call.docx[k].text))

\* The drawing calls saveAsPdf made for line number i of the text.
DrawsOf(i) == SelectSeq(call.pdf, LAMBDA d : d.from = i)

\* Line number i of the text is body text wider than the content width.
IsWideBody(lines, i) ==
  LET line == Trim(lines[i])
  IN  /\ line # << >>
      /\ ~StartsWith(line, <<"#"," ">>)
      /\ ~StartsWith(line, <<"#","#"," ">>)
      /\ ~StartsWith(line, <<"#","#","#"," ">>)
      /\ WidthOfString(line) > ContentWidth

\* C26: a body line wider than the content width is drawn as two lines or
\* more, and every line drawn for it is not empty and not wider than the
\* content width, a single word wider than the content width included.
C26_WrappedLinesFit ==
  (call.fn = "saveReport" /\ HasKey(call, "pdf")) =>
    LET lines == Split(call.text, <<"\n">>)
    IN  \A i \in DOMAIN lines :
          IsWideBody(lines, i) =>
            /\ Len(DrawsOf(i)) >= 2
            /\ \A d \in DOMAIN DrawsOf(i) :
                 /\ DrawsOf(i)[d].text # << >>
                 /\ WidthOfString(DrawsOf(i)[d].text) <= ContentWidth

\* C27: every line is drawn with the cursor at or above page height minus
\* bottom margin (742 points), the lines after the first of a wrapped
\* paragraph and lines after blank lines included, and the first line of
\* every further page is drawn at the top margin.
C27_DrawnInsidePrintableArea ==
  (call.fn = "saveReport" /\ HasKey(call, "pdf")) =>
    \A d \in DOMAIN call.pdf :
      /\ call.pdf[d].y <= HalfPoints(PageHeight - BottomMargin)
      /\ (d > 1 /\ call.pdf[d].page # call.pdf[d - 1].page)
           => call.pdf[d].y = HalfPoints(TopMargin)

\* The message of the exception each stage of the pipeline throws.
StageMessage ==
  [ createAnalysts |-> "Failed to create analysts",
    writeReport |-> "Failed to write main report",
    writeIntroduction |-> "Failed to generate introduction",
    writeConclusion |-> "Failed to generate conclusion" ]

\* C28: when a stage of a run fails, the error recorded on the run names
\* that stage: it is the message of the exception the stage threw, so that
\* failures of different stages are recorded differently.
C28_RecordedErrorNamesStage ==
  [][\A t \in DOMAIN execs : \A k \in DOMAIN execs[t] :
       (/\ execs[t][k].pc \in LlmStages
        /\ execs'[t][k].pc = "failed")
         => /\ workflows'[t].status = "error"
            /\ workflows'[t].error = StageMessage[execs[t][k].pc]
    ]_vars

\* The extension of each format.
ExtensionOf == [ docx |-> <<"d","o","c","x">>, pdf |-> <<"p","d","f">> ]

\* C29: after a status poll of a completed run, every format whose encoder
\* does not fail has its document on the file system, with the text of the
\* report, whichever format it is whose encoder fails.
C29_ExportPerFormat ==
  \A t \in DOMAIN workflows :
    (/\ reply.op = "getReportStatus"
     /\ reply.thread_id = t
     /\ workflows[t].status = "completed")
      => \A f \in Formats \ failing :
           \E file \in DOMAIN disk.files :
             disk.files[file] = Encoded(workflows[t].final_report, ExtensionOf[f])

\* The directory of a path, and its last name without the extension.
DirName(file) == SubSeq(file, 1, Len(file) - 1)
StemOf(file) ==
  LET name == file[Len(file)]
      dots == { i \in DOMAIN name : name[i] = "." }
  IN  IF dots = {} THEN name
      ELSE SubSeq(name, 1, (CHOOSE i \in dots : \A j \in dots : i >= j) - 1)

\* C30: the two documents a status poll of a completed run returns lie in
\* the same directory, a directory directly below the output root, and have
\* the same base name; they differ only in the extension.
C30_OneDirectoryPerReport ==
  \A t \in DOMAIN workflows :
    IsCompletedPoll(reply, t) =>
      /\ DirName(reply.docx_path) = DirName(reply.pdf_path)
      /\ DirName(DirName(reply.docx_path)) = GeneratedReport(ProjectRoot)
      /\ StemOf(reply.docx_path) = StemOf(reply.pdf_path)
      /\ reply.docx_path # reply.pdf_path

----------------------------------------------------------------------------
(* Further properties of the parser, the interview stages, the            *)
(* coordinator, the word wrap and the download.                           *)

\* The line opens a record: a 'name:' line or an 'analyst N:' line.
IsMarkerLine(line) ==
  \/ StartsWith(ToLowerCase(CleanLine(line)), <<"n","a","m","e",":">>)
  \/ MatchesAnalystMarker(CleanLine(line))

\* The line sets a field of the record that is open.
IsFieldLine(line) ==
  /\ ~StartsWith(ToLowerCase(CleanLine(line)), <<"n","a","m","e",":">>)
  /\ \/ StartsWith(ToLowerCase(CleanLine(line)), <<"r","o","l","e",":">>)
     \/ StartsWith(ToLowerCase(CleanLine(line)), <<"a","f","f","i","l","i",
           "a","t","i","o","n",":">>)
     \/ StartsWith(ToLowerCase(CleanLine(line)), <<"d","e","s","c","r","i",
           "p","t","i","o","n",":">>)

\* The name a marker line gives to the record it opens.
MarkerName(line) ==
  LET cleanLine == CleanLine(line)
  IN  IF AfterColon(cleanLine) # << >> THEN AfterColon(cleanLine)
      ELSE IF StartsWith(ToLowerCase(cleanLine), <<"n","a","m","e",":">>)
           THEN <<"U","n","k","n","o","w","n"," ","A","n","a","l","y","s",
                 "t">>
           ELSE cleanLine

\* The marker lines of the text whose records are emitted: the last marker
\* line, and every marker line with a field line before the next marker.
EmittedMarkers(lines) ==
  LET markers == { i \in 1..Len(lines) : IsMarkerLine(lines[i]) }
  IN  { i \in markers :
          \/ \A j \in markers : j <= i
          \/ \E j \in (i + 1)..Len(lines) :
               /\ IsFieldLine(lines[j])
               /\ \A k \in (i + 1)..j : k \notin markers }

\* C31: the parser emits the record a marker line opens, at the next
\* marker, only if the record has a name and at least one other field; a
\* record with a name only is dropped at the next marker; the last record
\* is emitted whenever it has a name. So the analysts returned are, in
\* order, the records of the last marker line and of the marker lines that
\* are followed by a field line before the next marker.
C31_FlushNeedsAnotherField ==
  (Returned("parseAnalystsFromResponse") /\ ~NoRecordLine(call.content)) =>
    LET lines == Split(call.content, <<"\n">>)
        emitted == EmittedMarkers(lines)
    IN  /\ Len(call.result) = Cardinality(emitted)
        /\ \A i \in emitted :
             call.result[Cardinality({ j \in emitted : j <= i })].name =
               MarkerName(lines[i])

\* C31 witness: 'Analyst 1:' directly followed by 'Name: Al' has given one
\* analyst, Al: the record of the header was dropped and the last record,
\* which has a name only, was emitted.
C31_Witness ==
  /\ Returned("parseAnalystsFromResponse")
  /\ call.content = <<"A","n","a","l","y","s","t"," ","1",":","\n","N","a",
        "m","e",":"," ","A","l">>
  /\ Len(call.result) = 1
  /\ call.result[1].name = <<"A","l">>

\* The keys of InterviewState, and the key each stage returns.
StateKeys ==
  { "analyst", "max_num_turns", "messages", "context", "interview",
    "sections" }
OwnKey ==
  [ ask_question |-> "messages",
    search_web |-> "context",
    generate_answer |-> "messages",
    save_interview |-> "interview",
    write_section |-> "sections" ]

\* The role a line of the transcript shows for a message.
RoleShown(msg) ==
  IF HasKey(msg, "role") /\ msg.role # << >> THEN msg.role ELSE <<"u","n",
        "k","n","o","w","n">>

\* C32: a stage changes no key of the state but its own: messages for Ask
\* Question and Generate Answer, context for Search Web, the transcript for
\* Save Transcript, the sections for Write Section; analyst and
\* max_num_turns never change.  The transcript has one line per message,
\* '<role>: <content>'.  What Write Section asks the model is made of the
\* analyst's description and the context alone.
C32_StagesKeepToTheirKey ==
  [][(interview.node \in Nodes /\ interview' # interview) =>
       /\ \A k \in StateKeys \ { OwnKey[interview.node] } :
            interview'[k] = interview[k]
       /\ interview'.node = "failed" =>
            \A k \in StateKeys : interview'[k] = interview[k]
       /\ interview.node = "save_interview" =>
            LET lines == Split(interview'.interview, <<"\n">>)
            IN  /\ Len(lines) = Len(interview.messages)
                /\ \A i \in 1..Len(lines) :
                     lines[i] = RoleShown(interview.messages[i]) \o <<":",
                           " ">>
                                  \o interview.messages[i].content
       /\ interview.node = "write_section" =>
            /\ interview'.prompt.template = "WRITE_SECTION"
            /\ interview'.prompt.args = << interview.analyst.description >>
            /\ interview'.prompt.messages =
                 << [ content |->
                        UseThisSource
                        \o (IF interview.context \in { << >>, << << >> >> }
                            THEN NoContext
                            ELSE Join(interview.context, <<"\n">>)) ] >>
    ]_vars

\* C32 witness: a run has finished whose transcript has two lines, the
\* question without a role and the answer of the expert, and whose sections
\* hold the section written last.
C32_Witness ==
  /\ interview.node = "END"
  /\ Len(interview.messages) = 2
  /\ interview.interview = <<"u","n","k","n","o","w","n",":"," ","x","\n",
        "e","x","p","e","r","t",":"," ","y">>
  /\ Len(interview.context) = 1
  /\ interview.sections = << <<"x">> >>
  /\ interview.prompt.template = "WRITE_SECTION"

\* Execution e settles in this step.
Settles(e) == InFlight(e) /\ execs'[e[1]][e[2]].pc \in { "done", "failed" }

\* C33: submitFeedback on an existing run answers its caller in the step in
\* which the execution it started settles and not before: when it answers,
\* the status of the run is completed or error, and the answer is a success
\* also when that execution failed.
C33_FeedbackAnswersAfterReexecution ==
  [][/\ \A e \in ExecIds :
          (Exec(e).origin = "feedback" /\ Settles(e)) =>
            /\ reply' = [op |-> "submitFeedback", success |-> TRUE,
                         thread_id |-> e[1]]
            /\ workflows'[e[1]].status \in TerminalStatuses
     /\ (reply'.op = "submitFeedback" /\ reply'.success) =>
          \E e \in ExecIds :
            /\ e[1] = reply'.thread_id
            /\ Exec(e).origin = "feedback"
            /\ Settles(e)
     /\ \A t \in DOMAIN workflows :
          FeedbackAccepted(t) => reply' = NoReply
    ]_vars

\* C33 witness: submitFeedback has answered with a success for a run whose
\* re-execution failed and whose status is error.
C33_Witness ==
  /\ reply.op = "submitFeedback"
  /\ reply.success
  /\ workflows[reply.thread_id].status = "error"
  /\ \E e \in ExecIds :
       /\ e[1] = reply.thread_id
       /\ Exec(e).origin = "feedback"
       /\ Exec(e).pc = "failed"

\* C34: the error field of a run is set only while its status is error; a
\* run whose status is completed, also one that completed through a
\* re-execution after a failure, carries no error.
C34_ErrorOnlyWithErrorStatus ==
  \A t \in DOMAIN workflows :
    HasKey(workflows[t], "error") => workflows[t].status = "error"

\* C35: the thread_id stored in the state of a run is the key under which
\* the state is stored, before and after an execution settles.
C35_ThreadIdIsKey ==
  \A t \in DOMAIN workflows : workflows[t].thread_id = t

\* The keys of the run state that hold the results of an execution, and the
\* results a workflow object holds.
ResultKeys == { "analysts", "sections", "final_report" }
ResultsOf(workflow) ==
  [k \in ResultKeys \cap DOMAIN workflow |-> workflow[k]]

\* C36: whatever the interleaving of the executions of a run, the analysts,
\* the sections and the final report the run state holds come from one
\* execution: they are there all three or none, the sections are those of
\* the analysts, and a step that changes any of them is the step in which
\* one execution settles and stores all three of its results.
C36_ResultsFromOneExecution ==
  /\ [](\A t \in DOMAIN workflows :
          /\ DOMAIN ResultsOf(workflows[t]) \in { {}, ResultKeys }
          /\ HasKey(workflows[t], "analysts") =>
               workflows[t].sections.persona = workflows[t].analysts.persona)
  /\ [][\A t \in DOMAIN workflows :
          ResultsOf(workflows'[t]) # ResultsOf(workflows[t]) =>
            \E e \in ExecIds, c \in ConclIds :
              /\ e[1] = t
              /\ Settles(e)
              /\ ResultsOf(workflows'[t]) =
                   [k \in ResultKeys |-> PipelineResult(e, c)[k]]
              /\ workflows'[t].thread_id = PipelineResult(e, c).thread_id
       ]_vars

\* C36 witness: two executions of one run overlapped and the first of them
\* settled last: the run holds the three results of that execution.
C36_Witness ==
  \E t \in DOMAIN workflows :
    /\ Len(execs[t]) = 2
    /\ execs[t][1].pc = "done" /\ execs[t][2].pc = "done"
    /\ workflows[t].thread_id = GenThreadId(t, 1)
    /\ DOMAIN ResultsOf(workflows[t]) = ResultKeys
    /\ workflows[t].analysts.persona = "mock"

\* C37: createAnalysts never returns more analysts than max_analysts,
\* whatever the model answers: records, or a text that makes the parser
\* fall back on synthesized analysts.
C37_AtMostMaxAnalysts ==
  Returned("createAnalysts") => Len(call.result) <= call.input.max_analysts

\* The words of a line: what stands between its spaces.
WordsOf(s) == SelectSeq(Split(s, <<" ">>), LAMBDA w : w # << >>)

\* Line number i of the text is body text.
IsBody(lines, i) ==
  LET line == Trim(lines[i])
  IN  /\ line # << >>
      /\ ~StartsWith(line, <<"#"," ">>)
      /\ ~StartsWith(line, <<"#","#"," ">>)
      /\ ~StartsWith(line, <<"#","#","#"," ">>)

\* C38: the word wrap keeps the text: for every body line, the lines drawn
\* for it, joined with single spaces, hold the words of the line, each once
\* and in the order of the line; no word is dropped, repeated or split.
C38_WrapKeepsWords ==
  (call.fn = "saveReport" /\ HasKey(call, "pdf")) =>
    LET lines == Split(call.text, <<"\n">>)
    IN  \A i \in DOMAIN lines :
          IsBody(lines, i) =>
            WordsOf(Join([d \in DOMAIN DrawsOf(i) |-> DrawsOf(i)[d].text],
                         <<" ">>))
              = WordsOf(lines[i])

\* C38 witness: a line of three words, each 200 points wide, has been drawn
\* as two lines, two words and one.
C38_Witness ==
  /\ call.fn = "saveReport" /\ HasKey(call, "pdf")
  /\ call.text = <<"w"," ","w"," ","w">>
  /\ Len(call.pdf) = 2
  /\ call.pdf[1].text = <<"w"," ","w">>
  /\ call.pdf[2].text = <<"w">>

\* C39: every document path a status poll of a completed run returns can be
\* fetched through download: the route accepts the file name of the path,
\* the search below the directory download looks in finds a file of that
\* name, and what it finds holds the bytes of the file at the path.
C39_ReturnedPathsDownloadable ==
  \A t \in DOMAIN workflows :
    IsCompletedPoll(reply, t) =>
      \A file \in { reply.docx_path, reply.pdf_path } :
        LET fileName == file[Len(file)]
            files == FindFile(disk, GeneratedReport(cwd), fileName)
        IN  /\ ~InvalidFileName(fileName)
            /\ files # {}
            /\ \A found \in files : disk.files[found] = disk.files[file]

====
